---- MODULE Spec2Model ----
(***************************************************************************)
(* A model of the 2D evolution simulator (src/main.js): world generation,  *)
(* species and creature generation, the per-creature tick, attack and      *)
(* reproduction, and the simulation step with its compaction.              *)
(*                                                                         *)
(* Numbers.  JavaScript numbers are modelled in fixed point.  A trait      *)
(* value v is held as v * ONE (ONE = 10^5); an energy value e is held as   *)
(* e * ONE * EPT (EPT = 80), so that the hunger of an omnivore (x 1.3),    *)
(* the food of a tile (x 0.1 .. x 1.0, x 0.5) and four successive          *)
(* halvings are exact integers.  Trait averages and the metabolism         *)
(* formula round down at 10^-5.  Ages, coordinates and counts are plain    *)
(* integers.  year holds the NUMBER of `year += 0.01` additions since the  *)
(* last reset (the double it stands for is the sum of that many 0.01).     *)
(***************************************************************************)
EXTENDS Integers, Sequences, FiniteSets, TLC

VARIABLES
  world,            \* main.js:46   the grid, world[y][x], or NullWorld
  speciesList,      \* main.js:47
  creatures,        \* main.js:48   the registry, in insertion order
  year,             \* main.js:49   number of 0.01 additions since reset
  paused,           \* main.js:50
  speedIndex,       \* main.js:51
  selectedCreature, \* main.js:52   the id of the selected creature, or NoCreature
  gen,              \* the locals of the running generateWorld call
  pc,               \* where the single thread of control is
  idx,              \* the loop index i of stepSimulation
  passStartLen,     \* observation: creatures.length when the current pass began
  lastAttack,       \* observation: the resolveAttack call of the last tick
  nextId,           \* the next fresh object identity
  stepsDone,        \* number of stepSimulation calls completed (the horizon)
  resets,           \* number of initWorld calls after the first (the horizon)
  call              \* the frame of a function examined on its own: its
                    \* name, its arguments and locals, and its result

vars == <<world, speciesList, creatures, year, paused, speedIndex,
          selectedCreature, gen, pc, idx, passStartLen, lastAttack, nextId,
          stepsDone, resets, call>>

-----------------------------------------------------------------------------
(* Bounds of the model *)

WORLD_WIDTH == 2

WORLD_HEIGHT == 2

NUM_SPECIES == 2

INDIVIDUALS == 2

SEEDS_PER_BIOME == 1

MaxSteps == 1

-----------------------------------------------------------------------------
(* Fixed point *)

ONE == 10^5

EPT == 2^4 * 5

EnergyOf(v) == v * EPT

Min(a, b) == IF a < b THEN a ELSE b

Max(a, b) == IF a > b THEN a ELSE b

\* x / d rounded toward minus infinity (d > 0)
FloorDiv(x, d) == x \div d

\* Math.round of the value num / den (den > 0): floor(v + 0.5)
MathRound(num, den) == FloorDiv(2 * num + den, 2 * den)

-----------------------------------------------------------------------------
(* World generation *)

BIOMES == {"water", "desert", "snowy", "woods", "swamp", "fields"}

Xs == 0 .. (WORLD_WIDTH - 1)

Ys == 0 .. (WORLD_HEIGHT - 1)

Tiles == [x : Xs, y : Ys]

NullWorld == [y \in {} |-> 0]

NoGen == [pc |-> "none", n |-> 0, chosen |-> {}, seeds |-> <<>>]

\* no function is examined on its own
NoCall == [fn |-> "none"]

\* generateBiomes, the draw of n: 2 + floor(random * 3)
PaletteSizes == 2 .. 4

\* generateWorld: numSeeds = allowedBiomes.length * 3 (3 is bounded by SEEDS_PER_BIOME)
NumSeeds(allowed) == Cardinality(allowed) * SEEDS_PER_BIOME

\* a re-draw that takes fields whatever the palette holds
SeedBiome_AlwaysFields(i, allowed, b, reroll, b2) ==
  IF i = 0 THEN "water"
  ELSE IF b = "water" /\ reroll /\ Cardinality(allowed) > 1 THEN "fields"
  ELSE b

\* The biome of seed i (0-based), from the draws: b = randomChoice(allowed),
\* reroll = (Math.random() < 0.6), b2 = randomChoice(allowed without water)
SeedBiome(i, allowed, b, reroll, b2) ==
  IF i = 0 THEN "water"
  ELSE IF b = "water" /\ reroll /\ Cardinality(allowed) > 1 THEN b2
  ELSE b

Dist2(x, y, s) == (x - s.x) * (x - s.x) + (y - s.y) * (y - s.y)

\* The inner loop over the seeds: the best seed so far is replaced only by a
\* strictly closer one.  best = 0 stands for bestSeed = null, bestDist2 = Infinity.
RECURSIVE BestSeedFrom(_, _, _, _, _)
BestSeedFrom(seeds, k, best, x, y) ==
  IF k > Len(seeds) THEN best
  ELSE IF best = 0 \/ Dist2(x, y, seeds[k]) < Dist2(x, y, seeds[best])
       THEN BestSeedFrom(seeds, k + 1, k, x, y)
       ELSE BestSeedFrom(seeds, k + 1, best, x, y)

\* a search in which the latest of the closest seeds wins
BestSeed_LatestWins(seeds, x, y) ==
  CHOOSE k \in 1 .. Len(seeds) :
    /\ \A j \in 1 .. Len(seeds) : Dist2(x, y, seeds[k]) <= Dist2(x, y, seeds[j])
    /\ \A j \in (k + 1) .. Len(seeds) :
         Dist2(x, y, seeds[k]) < Dist2(x, y, seeds[j])

BestSeed(seeds, x, y) == BestSeedFrom(seeds, 1, 0, x, y)

\* The grid built from the seeds: grid[y][x] = bestSeed.biome
VoronoiGrid(seeds) ==
  [y \in Ys |-> [x \in Xs |-> seeds[BestSeed(seeds, x, y)].biome]]

\* All seed lists of generateWorld for a palette, with the random draws taken
\* from the given sets
RECURSIVE SeedListsFrom(_, _, _, _, _)
SeedListsFrom(allowed, i, sofar, posDraws, biomeDraws) ==
  IF i >= NumSeeds(allowed) THEN {sofar}
  ELSE UNION { SeedListsFrom(allowed, i + 1,
                  Append(sofar, [x |-> p.x, y |-> p.y,
                                 biome |-> SeedBiome(i, allowed, b, r, b2)]),
                  posDraws, biomeDraws) :
               <<p, b, r, b2>> \in
                  posDraws \X (allowed \cap biomeDraws) \X BOOLEAN
                           \X ((allowed \ {"water"}) \cap biomeDraws) }

getBiome(w, x, y) ==
  IF y < 0 \/ y >= WORLD_HEIGHT \/ x < 0 \/ x >= WORLD_WIDTH THEN "fields"
  ELSE w[y][x]

-----------------------------------------------------------------------------
(* Traits: createBaselineTraits, mixTraits, applyMutation *)

\* The keys whose baseline value is a boolean (typeof va === "boolean")
BooleanTraits == {"has_venom", "can_hibernate", "can_burrow", "can_autotomize"}

MUTABLE_BOOLEAN_TRAITS ==
  {"has_venom", "can_hibernate", "can_burrow", "can_autotomize"}

MUTABLE_NUMERIC_TRAITS ==
  {"size", "max_speed", "armor", "attack_damage", "venom_power",
   "vision_radius", "food_efficiency", "temp_tolerance",
   "toxin_resistance", "offspring_per_cycle", "repro_cooldown",
   "max_age", "aggression", "caution", "curiosity", "grouping",
   "territorial", "risk_taking", "camo", "crypsis_level",
   "mimicry_level", "false_eye_spots", "burrow_speed",
   "spine_damage", "repellent_strength", "irritant_level",
   "startle_power", "regen_rate"}

\* v tenths, as a trait value
Tenths(v) == v * (ONE \div 10)

createBaselineTraits ==
  [size |-> ONE, max_speed |-> ONE, accel |-> Tenths(1),
   turn_speed |-> Tenths(2), armor |-> 0, attack_damage |-> ONE,
   venom_power |-> 0, has_venom |-> FALSE, stomach_capacity |-> 60 * ONE,
   constriction_power |-> 0, ram_force |-> 0, tail_power |-> 0,
   bite_force |-> ONE,
   vision_radius |-> 5 * ONE, fov |-> 180 * ONE,
   detection_chance |-> Tenths(7), smell_range |-> 3 * ONE,
   night_vision |-> 0,
   metabolism_rate |-> 3 * (ONE \div 100), food_efficiency |-> ONE,
   temp_tolerance |-> 0, toxin_resistance |-> 0, can_hibernate |-> FALSE,
   disease_chance |-> 0, slime_thickness |-> 0, shell_hardness |-> 0,
   offspring_per_cycle |-> ONE, repro_cooldown |-> 200 * ONE,
   max_age |-> 2000 * ONE, care_level |-> 0,
   aggression |-> Tenths(3), caution |-> Tenths(5), curiosity |-> Tenths(5),
   grouping |-> Tenths(2), territorial |-> Tenths(2),
   risk_taking |-> Tenths(3),
   camo |-> 0, crypsis_level |-> 0, mimicry_level |-> 0,
   false_eye_spots |-> 0,
   can_burrow |-> FALSE, burrow_speed |-> 0, spine_damage |-> 0,
   repellent_strength |-> 0, irritant_level |-> 0,
   can_autotomize |-> FALSE, startle_power |-> 0,
   regen_rate |-> 0]

\* a crossover that copies the numeric traits of the first parent
mixTraits_FirstParent(a, b, pickA) ==
  [key \in DOMAIN a |->
     IF key \in BooleanTraits
     THEN (IF pickA[key] THEN a[key] ELSE b[key])
     ELSE a[key]]

\* mixTraits(a, b); pickA[key] is the draw (Math.random() < 0.5) of a boolean key
mixTraits(a, b, pickA) ==
  [key \in DOMAIN a |->
     IF key \in BooleanTraits
     THEN (IF pickA[key] THEN a[key] ELSE b[key])
     ELSE FloorDiv(a[key] + b[key], 2)]

\* a mutation that clamps every trait from below only, as attack_damage is
ClampTrait_LowerOnly(key, v) ==
  CASE key = "size" -> Max(3 * (ONE \div 10), v)
    [] key = "max_speed" -> Max(2 * (ONE \div 10), v)
    [] key = "armor" -> Max(0, v)
    [] key = "attack_damage" -> Max(ONE \div 10, v)
    [] key = "offspring_per_cycle" -> Max(ONE, v)
    [] key = "repro_cooldown" -> Max(80 * ONE, v)
    [] key = "vision_radius" -> Max(3 * ONE, v)
    [] OTHER -> v

\* applyMutation, lines 317-323: the clamp of one numeric trait
ClampTrait(key, v) ==
  CASE key = "size" -> Max(3 * (ONE \div 10), Min(v, 3 * ONE))
    [] key = "max_speed" -> Max(2 * (ONE \div 10), Min(v, 4 * ONE))
    [] key = "armor" -> Max(0, Min(v, 5 * ONE))
    [] key = "attack_damage" -> Max(ONE \div 10, v)
    [] key = "offspring_per_cycle" -> Max(ONE, Min(v, 5 * ONE))
    [] key = "repro_cooldown" -> Max(80 * ONE, Min(v, 500 * ONE))
    [] key = "vision_radius" -> Max(3 * ONE, Min(v, 20 * ONE))
    [] OTHER -> v

\* a numeric mutation that reaches into stomach_capacity as well
MutateNumeric_AndStomach(t, key, delta) ==
  [t EXCEPT ![key] = ClampTrait(key, t[key] + delta),
            !.stomach_capacity = @ + delta]

\* applyMutation, lines 311-325: one numeric mutation
MutateNumeric(t, key, delta) ==
  [t EXCEPT ![key] = ClampTrait(key, t[key] + delta)]

\* a mutation that keeps the metabolism_rate it was given
Metabolism_Kept(t) == t.metabolism_rate

\* applyMutation, lines 329-340: complexity * 0.003 + 0.02
Metabolism(t) ==
  LET complexity ==
        t.size
        + FloorDiv(t.armor * 5, 10)
        + FloorDiv(t.attack_damage * 3, 10)
        + FloorDiv(t.max_speed * 3, 10)
        + FloorDiv(t.vision_radius, 10)
        + (IF t.has_venom THEN 2 * ONE ELSE 0)
        + t.regen_rate * 2
        + (IF t.can_burrow THEN ONE ELSE 0)
        + (IF t.can_hibernate THEN ONE \div 2 ELSE 0)
  IN  2 * (ONE \div 100) + FloorDiv(complexity * 3, 1000)

\* applyMutation(traits).  The draws: m.flip (Math.random() < 0.05) and
\* m.flipKey; m.two (Math.random() < 0.3); m.key1, m.delta1, m.key2, m.delta2
applyMutation(traits, m) ==
  LET t0 == IF m.flip THEN [traits EXCEPT ![m.flipKey] = ~@] ELSE traits
      t1 == MutateNumeric(t0, m.key1, m.delta1)
      t2 == IF m.two THEN MutateNumeric(t1, m.key2, m.delta2) ELSE t1
  IN  [t2 EXCEPT !.metabolism_rate = Metabolism(t2)]

\* The draws of one applyMutation call, taken from the given sets
MutationDraws(flipKeys, keys, deltas, twos) ==
  { [flip |-> fk # "none", flipKey |-> fk, two |-> tw,
     key1 |-> k1, delta1 |-> d1, key2 |-> k2, delta2 |-> d2] :
    <<fk, tw, k1, d1, k2, d2>> \in
       (flipKeys \cup {"none"}) \X twos \X keys \X deltas \X keys \X deltas }

-----------------------------------------------------------------------------
(* Species and creatures *)

NoCreature == 0

NoAttack == [attacker |-> 0, target |-> 0, damage |-> 0]

Species(id, movementMode, dietType, isCannibal) ==
  [id |-> id, movementMode |-> movementMode, dietType |-> dietType,
   isCannibal |-> isCannibal]

START_ENERGY == EnergyOf(50 * ONE)

\* new Creature(species, x, y, sex, traits); id is the object's identity
Creature(id, species, x, y, sex, traits) ==
  [id |-> id, speciesId |-> species.id,
   movementMode |-> species.movementMode, dietType |-> species.dietType,
   isCannibal |-> species.isCannibal,
   x |-> x, y |-> y, sex |-> sex, age |-> 0, energy |-> START_ENERGY,
   traits |-> traits, alive |-> TRUE]

Capacity(c) == EnergyOf(c.traits.stomach_capacity)

\* biomeFoodValue(biome, dietType), in tenths
biomeFoodValue(biome, dietType) ==
  IF dietType = "herbivore"
  THEN (IF biome \in {"woods", "fields", "swamp"} THEN 10 ELSE 2)
  ELSE IF dietType = "omnivore"
  THEN (IF biome \in {"woods", "fields", "swamp"} THEN 7 ELSE 3)
  ELSE 1

\* findNearbyCreature without the test of line 456
findNearbyCreature_NoAliveTest(cs, i, radius) ==
  LET near(j) ==
        /\ j # i
        /\ (cs[j].x - cs[i].x) * (cs[j].x - cs[i].x)
           + (cs[j].y - cs[i].y) * (cs[j].y - cs[i].y) <= radius * radius
      hits == { j \in 1 .. Len(cs) : near(j) }
  IN  IF hits = {} THEN 0
      ELSE CHOOSE j \in hits : \A k \in hits : j <= k

\* a search over the 8-neighbourhood, as the mate search has it
findNearbyCreature_Chebyshev(cs, i, radius) ==
  LET near(j) ==
        /\ cs[j].alive
        /\ j # i
        /\ (cs[j].x - cs[i].x) \in (- radius) .. radius
        /\ (cs[j].y - cs[i].y) \in (- radius) .. radius
      hits == { j \in 1 .. Len(cs) : near(j) }
  IN  IF hits = {} THEN 0
      ELSE CHOOSE j \in hits : \A k \in hits : j <= k

\* findNearbyCreature(creature, radius): the index of the first creature of
\* the registry that is alive, is not cs[i] and lies within radius; 0 for null
findNearbyCreature(cs, i, radius) ==
  LET near(j) ==
        /\ cs[j].alive
        /\ j # i
        /\ (cs[j].x - cs[i].x) * (cs[j].x - cs[i].x)
           + (cs[j].y - cs[i].y) * (cs[j].y - cs[i].y) <= radius * radius
      hits == { j \in 1 .. Len(cs) : near(j) }
  IN  IF hits = {} THEN 0
      ELSE CHOOSE j \in hits : \A k \in hits : j <= k

\* a damage that ignores the target's armor and shell
AttackDamage_NoArmor(attacker, target) ==
  Max(0, attacker.traits.attack_damage + attacker.traits.bite_force)

\* resolveAttack(attacker, target) on cs[ai], cs[ti]
AttackDamage(attacker, target) ==
  Max(0, attacker.traits.attack_damage + attacker.traits.bite_force
         - (target.traits.armor + target.traits.shell_hardness * 2))

\* an attack that kills below zero only
resolveAttack_KillBelowZero(cs, sel, ai, ti) ==
  LET damage == AttackDamage(cs[ai], cs[ti])
      spines == cs[ti].traits.spine_damage
      venom  == IF cs[ai].traits.has_venom /\ cs[ai].traits.venom_power > 0
                THEN EnergyOf(cs[ai].traits.venom_power * 2) ELSE 0
      tE     == cs[ti].energy - EnergyOf(damage * 5) - venom
      aE     == IF spines > 0 THEN cs[ai].energy - EnergyOf(spines * 3)
                ELSE cs[ai].energy
      killed == tE < 0
      aE2    == IF killed
                THEN Min(Capacity(cs[ai]),
                         aE + EnergyOf(30 * cs[ai].traits.food_efficiency))
                ELSE aE
  IN  IF damage <= 0 THEN [cs |-> cs, sel |-> sel]
      ELSE [cs  |-> [cs EXCEPT ![ti].energy = tE,
                               ![ti].alive = IF killed THEN FALSE ELSE @,
                               ![ai].energy = aE2],
            sel |-> IF killed /\ sel = cs[ti].id THEN NoCreature ELSE sel]

resolveAttack(cs, sel, ai, ti) ==
  LET damage == AttackDamage(cs[ai], cs[ti])
      spines == cs[ti].traits.spine_damage
      venom  == IF cs[ai].traits.has_venom /\ cs[ai].traits.venom_power > 0
                THEN EnergyOf(cs[ai].traits.venom_power * 2) ELSE 0
      tE     == cs[ti].energy - EnergyOf(damage * 5) - venom
      aE     == IF spines > 0 THEN cs[ai].energy - EnergyOf(spines * 3)
                ELSE cs[ai].energy
      killed == tE <= 0
      aE2    == IF killed
                THEN Min(Capacity(cs[ai]),
                         aE + EnergyOf(30 * cs[ai].traits.food_efficiency))
                ELSE aE
  IN  IF damage <= 0 THEN [cs |-> cs, sel |-> sel]
      ELSE [cs  |-> [cs EXCEPT ![ti].energy = tE,
                               ![ti].alive = IF killed THEN FALSE ELSE @,
                               ![ai].energy = aE2],
            sel |-> IF killed /\ sel = cs[ti].id THEN NoCreature ELSE sel]

\* a mate search without the test of line 508
FindMate_AnySex(cs, i) ==
  LET ok(j) ==
        /\ cs[j].alive
        /\ j # i
        /\ cs[j].speciesId = cs[i].speciesId
        /\ ~ (\/ (IF cs[j].x - cs[i].x < 0 THEN cs[i].x - cs[j].x
                  ELSE cs[j].x - cs[i].x) > 1
              \/ (IF cs[j].y - cs[i].y < 0 THEN cs[i].y - cs[j].y
                  ELSE cs[j].y - cs[i].y) > 1)
        /\ ~ (cs[j].energy < Capacity(cs[j]) \div 2)
      found == { j \in 1 .. Len(cs) : ok(j) }
  IN  IF found = {} THEN 0
      ELSE CHOOSE j \in found : \A k \in found : j <= k

\* The mate search of attemptReproduction, lines 504-512: the index of the
\* first creature that passes every test of the callback; 0 for undefined
FindMate(cs, i) ==
  LET ok(j) ==
        /\ cs[j].alive
        /\ j # i
        /\ cs[j].speciesId = cs[i].speciesId
        /\ cs[j].sex # cs[i].sex
        /\ ~ (\/ (IF cs[j].x - cs[i].x < 0 THEN cs[i].x - cs[j].x
                  ELSE cs[j].x - cs[i].x) > 1
              \/ (IF cs[j].y - cs[i].y < 0 THEN cs[i].y - cs[j].y
                  ELSE cs[j].y - cs[i].y) > 1)
        /\ ~ (cs[j].energy < Capacity(cs[j]) \div 2)
      found == { j \in 1 .. Len(cs) : ok(j) }
  IN  IF found = {} THEN 0
      ELSE CHOOSE j \in found : \A k \in found : j <= k

\* the offspring count without the division by 2
OffspringCount_Sum(a, b) ==
  MathRound(a.traits.offspring_per_cycle + b.traits.offspring_per_cycle, ONE)

\* attemptReproduction, lines 517-519
OffspringCount(a, b) ==
  MathRound(a.traits.offspring_per_cycle + b.traits.offspring_per_cycle,
            2 * ONE)

\* a reproduction without the age test of line 501
AgeGate_Always(c) == TRUE

\* age % repro_cooldown !== 0 is false
AgeGate(c) == (c.age * ONE) % c.traits.repro_cooldown = 0

\* offspring created where the mate stands
SpawnPosition_AtMate(cs, i, mate) == [x |-> cs[mate].x, y |-> cs[mate].y]

\* The position at which offspring are created, lines 530-531 and 538-539
SpawnPosition(cs, i, mate) == [x |-> cs[i].x, y |-> cs[i].y]

\* The traits of one child from its draws k: k.pickA for mixTraits,
\* k.mutate (Math.random() < 0.4) and k.m for applyMutation
ChildTraits(a, b, k) ==
  LET childTraits == mixTraits(a, b, k.pickA)
  IN  IF k.mutate THEN applyMutation(childTraits, k.m) ELSE childTraits

\* the cost paid twice
Halved_Twice(e) == (e \div 2) \div 2

\* creature.energy *= 0.5
Halved(e) == e \div 2

\* attemptReproduction(creature, index) on cs[i]; kd[k] holds the draws of
\* child k, nid is the first free identity.  born is the number of children.
attemptReproduction(cs, sl, i, kd, nid) ==
  LET mate == FindMate(cs, i)
      n    == OffspringCount(cs[i], cs[mate])
      pos  == SpawnPosition(cs, i, mate)
      kids == [k \in 1 .. n |->
                 Creature(nid + k - 1, sl[cs[i].speciesId + 1], pos.x, pos.y,
                          kd[k].sex,
                          ChildTraits(cs[i].traits, cs[mate].traits, kd[k]))]
  IN  IF ~ cs[i].alive \/ ~ AgeGate(cs[i]) \/ mate = 0
      THEN [cs |-> cs, born |-> 0]
      ELSE [cs |-> [(cs \o kids) EXCEPT ![i].energy = Halved(@),
                                        ![mate].energy = Halved(@)],
            born |-> n]

\* stepCreature, lines 403-410: the destination of a move in direction dir
DirDX(dir) == CASE dir \in {0, 4, 6} -> 1 [] dir \in {1, 5, 7} -> -1 [] OTHER -> 0

DirDY(dir) == CASE dir \in {2, 6, 7} -> 1 [] dir \in {3, 4, 5} -> -1 [] OTHER -> 0

\* a move that does not look at the biome of the destination
MoveTo_AnyBiome(w, c, dir) ==
  [x |-> Max(0, Min(WORLD_WIDTH - 1, c.x + DirDX(dir))),
   y |-> Max(0, Min(WORLD_HEIGHT - 1, c.y + DirDY(dir)))]

\* stepCreature, lines 412-423: the position after the attempted move
MoveTo(w, c, dir) ==
  LET nx == c.x + DirDX(dir)
      ny == c.y + DirDY(dir)
      nextBiome == getBiome(w, nx, ny)
      accepted == IF c.movementMode = "water" THEN nextBiome = "water"
                  ELSE nextBiome # "water"
  IN  IF accepted
      THEN [x |-> Max(0, Min(WORLD_WIDTH - 1, nx)),
            y |-> Max(0, Min(WORLD_HEIGHT - 1, ny))]
      ELSE [x |-> c.x, y |-> c.y]

\* stepCreature, lines 377-382
Hunger(c) ==
  IF c.dietType = "omnivore"
  THEN FloorDiv(EnergyOf(c.traits.metabolism_rate) * 13, 10)
  ELSE EnergyOf(c.traits.metabolism_rate)

\* a death check that looks at the energy only
DeathCheck_EnergyOnly(c) == c.energy <= 0

\* stepCreature, line 386
DeathCheck(c) == c.age * ONE > c.traits.max_age \/ c.energy <= 0

\* a meal without the factor 0.5
Feed_Whole(c, biome) ==
  LET e == c.energy
           + FloorDiv(biomeFoodValue(biome, c.dietType)
                      * EnergyOf(c.traits.food_efficiency), 10)
  IN  IF e > Capacity(c) THEN Capacity(c) ELSE e

\* stepCreature, lines 426-431; biome is the tile read at line 396
Feed(c, biome) ==
  LET e == c.energy
           + FloorDiv(biomeFoodValue(biome, c.dietType)
                      * EnergyOf(c.traits.food_efficiency), 20)
  IN  IF e > Capacity(c) THEN Capacity(c) ELSE e

\* the test of lines 437-441 without isCarnivore
MayAttack_AnyDiet(cs, i, t) ==
  /\ t # 0
  /\ cs[t].alive
  /\ t # i
  /\ LET sameSpecies == cs[t].speciesId = cs[i].speciesId
         canAttackSame == cs[i].isCannibal
     IN  ~ sameSpecies \/ (sameSpecies /\ canAttackSame)

\* the test of lines 437-441 without the species test
MayAttack_AnySpecies(cs, i, t) ==
  /\ t # 0
  /\ cs[t].alive
  /\ t # i
  /\ cs[i].dietType \in {"carnivore", "omnivore"}

\* stepCreature, lines 437-441: may cs[i] attack cs[t] (t = 0 for null)
MayAttack(cs, i, t) ==
  /\ t # 0
  /\ cs[t].alive
  /\ t # i
  /\ LET sameSpecies == cs[t].speciesId = cs[i].speciesId
         canAttackSame == cs[i].isCannibal
         isCarnivore == cs[i].dietType \in {"carnivore", "omnivore"}
     IN  isCarnivore /\ (~ sameSpecies \/ (sameSpecies /\ canAttackSame))

\* stepCreature, line 448
ReproGate(c) == c.energy > (Capacity(c) \div 10) * 7

\* the element of a singleton set; used to name an intermediate value
Only(S) == CHOOSE x \in S : TRUE

\* a tick that counts the age twice
Aged_ByTwo(c) == [c EXCEPT !.age = @ + 2, !.energy = @ - Hunger(c)]

\* stepCreature, lines 374-382: age and hunger
Aged(c) == [c EXCEPT !.age = @ + 1, !.energy = @ - Hunger(c)]

\* stepCreature, lines 391-393: regeneration
Regen(c) ==
  [c EXCEPT !.energy = Min(Capacity(c), @ + EnergyOf(c.traits.regen_rate))]

\* stepCreature, lines 399-424: the random step
Moved(w, c, d) ==
  IF d.step
  THEN [c EXCEPT !.x = MoveTo(w, c, d.dir).x, !.y = MoveTo(w, c, d.dir).y]
  ELSE c

\* stepCreature, lines 426-431
Fed(c, biome) == [c EXCEPT !.energy = Feed(c, biome)]

\* stepCreature, lines 434-445, on the registry cs4 that holds the creature
\* after its move and its meal
AttackStep(cs4, sel, i, d, t) ==
  IF d.attack /\ MayAttack(cs4, i, t)
  THEN [cs |-> resolveAttack(cs4, sel, i, t).cs,
        sel |-> resolveAttack(cs4, sel, i, t).sel,
        died |-> FALSE,
        attack |-> [attacker |-> cs4[i].id, target |-> cs4[t].id,
                    damage |-> AttackDamage(cs4[i], cs4[t])]]
  ELSE [cs |-> cs4, sel |-> sel, died |-> FALSE, attack |-> NoAttack]

AttackPhase(cs4, sel, i, d) ==
  Only({ AttackStep(cs4, sel, i, d, t) :
           t \in {IF d.attack THEN findNearbyCreature(cs4, i, 1) ELSE 0} })

\* stepCreature, lines 373-445: the tick of cs[i] up to, not including, the
\* reproduction test.  The draws: d.step (Math.random() < stepChance), d.dir,
\* d.attack (Math.random() < aggression * 0.05).  The biome the creature
\* feeds on is the one read at line 396, before the move.
TickHead(cs, sel, w, i, d) ==
  IF ~ cs[i].alive
  THEN [cs |-> cs, sel |-> sel, died |-> FALSE, attack |-> NoAttack]
  ELSE IF DeathCheck(Aged(cs[i]))
  THEN [cs |-> [cs EXCEPT ![i] = [Aged(cs[i]) EXCEPT !.alive = FALSE]],
        sel |-> IF sel = cs[i].id THEN NoCreature ELSE sel,
        died |-> TRUE, attack |-> NoAttack]
  ELSE Only({ AttackPhase(cs4, sel, i, d) :
                cs4 \in { [cs EXCEPT ![i] =
                             Fed(Moved(w, Regen(Aged(cs[i])), d),
                                 getBiome(w, cs[i].x, cs[i].y))] } })

\* Does the tick of cs[i] reach attemptReproduction with a mate, and a
\* creature of the right age?  (h is TickHead's result)
Reproduces(h, i) ==
  /\ ~ h.died
  /\ h.cs[i].alive
  /\ ReproGate(h.cs[i])
  /\ AgeGate(h.cs[i])
  /\ FindMate(h.cs, i) # 0

\* stepCreature, lines 447-450, after the head h of the tick
TickTail(h, sl, i, kd, nid) ==
  IF ~ h.cs[i].alive \/ h.died \/ ~ ReproGate(h.cs[i])
  THEN [cs |-> h.cs, sel |-> h.sel, attack |-> h.attack, born |-> 0]
  ELSE [cs |-> attemptReproduction(h.cs, sl, i, kd, nid).cs,
        sel |-> h.sel, attack |-> h.attack,
        born |-> attemptReproduction(h.cs, sl, i, kd, nid).born]

\* stepCreature(creature, index) on cs[i]
stepCreature(cs, sel, sl, w, i, d, kd, nid) ==
  Only({ TickTail(h, sl, i, kd, nid) : h \in {TickHead(cs, sel, w, i, d)} })

-----------------------------------------------------------------------------
(* generateWorld, statement by statement (the first initWorld call) *)

\* everything but the world and the locals of generateWorld
simVars == <<speciesList, creatures, year, paused, speedIndex,
             selectedCreature, pc, idx, passStartLen, lastAttack, nextId,
             stepsDone, resets, call>>

\* generateBiomes, lines 163-165: chosen = {water}, n = 2 + floor(random * 3)
GB_Start ==
  /\ pc = "generateWorld" /\ gen.pc = "none"
  /\ \E n \in PaletteSizes :
       gen' = [pc |-> "biomes", n |-> n, chosen |-> {"water"}, seeds |-> <<>>]
  /\ UNCHANGED <<world, simVars>>

\* generateBiomes, lines 166-168: one iteration of the while loop
GB_Add ==
  /\ pc = "generateWorld" /\ gen.pc = "biomes"
  /\ Cardinality(gen.chosen) < gen.n
  /\ \E b \in BIOMES : gen' = [gen EXCEPT !.chosen = @ \cup {b}]
  /\ UNCHANGED <<world, simVars>>

\* generateBiomes, line 169, and generateWorld, lines 174-177
GB_Return ==
  /\ pc = "generateWorld" /\ gen.pc = "biomes"
  /\ Cardinality(gen.chosen) >= gen.n
  /\ gen' = [gen EXCEPT !.pc = "seeds"]
  /\ UNCHANGED <<world, simVars>>

\* generateWorld, lines 179-196: one iteration of the seed loop
GW_Seed ==
  /\ pc = "generateWorld" /\ gen.pc = "seeds"
  /\ Len(gen.seeds) < NumSeeds(gen.chosen)
  /\ \E p \in Tiles, b \in gen.chosen, r \in BOOLEAN,
        b2 \in gen.chosen \ {"water"} :
       gen' = [gen EXCEPT !.seeds =
                 Append(@, [x |-> p.x, y |-> p.y,
                            biome |-> SeedBiome(Len(gen.seeds), gen.chosen,
                                                b, r, b2)])]
  /\ UNCHANGED <<world, simVars>>

\* generateWorld, lines 198-218, and the assignment of initWorld, line 726
GW_Grid ==
  /\ pc = "generateWorld" /\ gen.pc = "seeds"
  /\ Len(gen.seeds) >= NumSeeds(gen.chosen)
  /\ world' = VoronoiGrid(gen.seeds)
  /\ gen' = [gen EXCEPT !.pc = "done"]
  /\ UNCHANGED simVars

\* The state in which the script calls initWorld (line 755)
InitWorldGen ==
  /\ world = NullWorld
  /\ speciesList = <<>>
  /\ creatures = <<>>
  /\ year = 0
  /\ paused = FALSE
  /\ speedIndex = 2
  /\ selectedCreature = NoCreature
  /\ gen = NoGen
  /\ pc = "generateWorld"
  /\ idx = 0
  /\ passStartLen = 0
  /\ lastAttack = NoAttack
  /\ nextId = 1
  /\ stepsDone = 0
  /\ resets = 0
  /\ call = NoCall

NextWorldGen == GB_Start \/ GB_Add \/ GB_Return \/ GW_Seed \/ GW_Grid

SpecWorldGen == InitWorldGen /\ [][NextWorldGen]_vars

\* C10 -- Biome coverage: when generateBiomes has returned, its palette holds
\* 2, 3 or 4 distinct biomes of BIOMES and contains water; every seed's biome
\* and, once the grid is built, every cell's biome is a member of that palette.
C10_BiomeCoverage ==
  /\ gen.pc \in {"seeds", "done"} =>
       /\ Cardinality(gen.chosen) \in {2, 3, 4}
       /\ "water" \in gen.chosen
       /\ gen.chosen \subseteq BIOMES
       /\ \A k \in 1 .. Len(gen.seeds) : gen.seeds[k].biome \in gen.chosen
  /\ gen.pc = "done" =>
       /\ DOMAIN world = Ys
       /\ \A y \in Ys : DOMAIN world[y] = Xs
       /\ \A y \in Ys, x \in Xs : world[y][x] \in gen.chosen

\* a generated world with a palette of four biomes and a non-water cell
C10_Witness ==
  /\ gen.pc = "done"
  /\ Cardinality(gen.chosen) = 4
  /\ \E y \in Ys, x \in Xs : world[y][x] # "water"
  /\ \E y \in Ys, x \in Xs : world[y][x] = "water"

-----------------------------------------------------------------------------
(* Species and creature generation *)

MAX_ATTEMPTS == 1000

\* a test that accepts every tile
TileMatches_Any(w, movementMode, t) == TRUE

\* findRandomTileForSpecies, lines 244-249: is tile t one the loop returns?
TileMatches(w, movementMode, t) ==
  IF movementMode = "water" THEN w[t.y][t.x] = "water"
  ELSE w[t.y][t.x] # "water"

\* findRandomTileForSpecies(species): draw[a] is the tile drawn at attempt a
\* (0 .. MAX_ATTEMPTS - 1), fallback the tile drawn after the loop.  The loop
\* returns the tile of the first attempt that matches.
findRandomTileForSpecies(w, movementMode, draw, fallback) ==
  LET hits == { a \in 0 .. (MAX_ATTEMPTS - 1) :
                  TileMatches(w, movementMode, draw[a]) }
  IN  IF hits = {} THEN fallback
      ELSE draw[CHOOSE a \in hits : \A b \in hits : a <= b]

\* The tiles findRandomTileForSpecies returns when every attempt draws the
\* same tile t (and so does the fallback), t ranging over tileDraws
PlacementTiles(w, movementMode, tileDraws) ==
  { findRandomTileForSpecies(w, movementMode,
       [a \in 0 .. (MAX_ATTEMPTS - 1) |-> t], t) : t \in tileDraws }

\* spawnInitialCreatures, lines 266-270: baseline traits with max_speed,
\* attack_damage and armor scaled by 0.8 + random * 0.4, given in hundredths
InitialTraits(fSpeed, fAttack, fArmor) ==
  LET b == createBaselineTraits
  IN  [b EXCEPT !.max_speed = FloorDiv(@ * fSpeed, 100),
                !.attack_damage = FloorDiv(@ * fAttack, 100),
                !.armor = FloorDiv(@ * fArmor, 100)]

\* generateSpeciesList: the species lists whose draws come from kinds
SpeciesLists(kinds) ==
  { [i \in 1 .. NUM_SPECIES |->
       Species(i - 1, k[i].movementMode, k[i].dietType, k[i].isCannibal)] :
    k \in [1 .. NUM_SPECIES -> kinds] }

\* spawnInitialCreatures: slot s (1-based) belongs to species (s-1) div INDIVIDUALS
SpawnCount == NUM_SPECIES * INDIVIDUALS

SpawnSpecies(sl, s) == sl[((s - 1) \div INDIVIDUALS) + 1]

\* the values generateBiomes can return when n is drawn from sizes and the
\* biomes from draws: water plus n - 1 distinct others
Palettes(sizes, draws) ==
  { S \in SUBSET ({"water"} \cup draws) :
      "water" \in S /\ Cardinality(S) \in sizes }

-----------------------------------------------------------------------------
(* The simulation step: loop() -> stepSimulation() -> stepCreature() *)

SPEED_STEPS == <<0, 1, 2, 4, 8>>

\* year % 5 === 0.  year is a double, the sum of n additions of 0.01 to 0;
\* that sum is never again an exact multiple of 5 (the 500th sum is
\* 4.999999999999938, and no sum up to the 20,000,000th is one)
YearIsMultipleOf5(n) == n = 0

\* the bound of a loop that would read creatures.length once, before the pass
PassLimit_ReadOnce == passStartLen

\* stepSimulation, line 684: the bound of the loop, read at every iteration
PassLimit == Len(creatures)

\* The outcomes of Math.random() < p for p = num / den (den > 0)
Chance(num, den) ==
  (IF num > 0 THEN {TRUE} ELSE {}) \cup (IF num < den THEN {FALSE} ELSE {})

\* The draws of the tick of c: stepChance = 0.2 + curiosity * 0.3, one of
\* 8 directions, and the attack draw against aggression * 0.05
TickDraws(c) ==
  { [step |-> st, dir |-> dir, attack |-> at] :
      <<st, dir, at>> \in
        { x \in Chance(2 * ONE + 3 * c.traits.curiosity, 10 * ONE)
                \X (0 .. 7) \X Chance(c.traits.aggression * 5, 100 * ONE) :
            x[1] \/ x[2] = 0 } }

\* The draws of one child: its sex, the mixTraits picks for the boolean
\* traits on which the parents differ, and the mutation draws
NoMutation ==
  [flip |-> FALSE, flipKey |-> "none", two |-> FALSE,
   key1 |-> "size", delta1 |-> 0, key2 |-> "size", delta2 |-> 0]

KidDraws(a, b, mdraws) ==
  LET diff == { k \in BooleanTraits : a[k] # b[k] }
      picks == { [k \in BooleanTraits |-> IF k \in diff THEN f[k] ELSE TRUE] :
                 f \in [diff -> BOOLEAN] }
  IN  { [sex |-> sx, pickA |-> pk, mutate |-> FALSE, m |-> NoMutation] :
          <<sx, pk>> \in {"M", "F"} \X picks }
      \cup
      { [sex |-> sx, pickA |-> pk, mutate |-> TRUE, m |-> m] :
          <<sx, pk, m>> \in {"M", "F"} \X picks \X mdraws }

\* the mutation draws explored by the simulation
SimMutationDraws ==
  MutationDraws({}, {"attack_damage"}, {Tenths(1)}, {FALSE})

\* The draws of the children of the tick of cs[i] with draws d: one per child
\* when the tick reproduces, none otherwise
LitterDraws(h, i) ==
  IF Reproduces(h, i)
  THEN Only({ [1 .. OffspringCount(h.cs[i], h.cs[m]) ->
                 KidDraws(h.cs[i].traits, h.cs[m].traits, SimMutationDraws)] :
              m \in {FindMate(h.cs, i)} })
  ELSE {<<>>}

KidDrawSeqs(cs, sel, w, i, d) ==
  Only({ LitterDraws(h, i) : h \in {TickHead(cs, sel, w, i, d)} })

BeginStep ==
  /\ pc = "idle"
  /\ ~ paused
  /\ SPEED_STEPS[speedIndex + 1] > 0
  /\ stepsDone < MaxSteps
  /\ pc' = "step"
  /\ idx' = 0
  /\ passStartLen' = Len(creatures)
  /\ lastAttack' = NoAttack
  /\ UNCHANGED <<world, speciesList, creatures, year, paused, speedIndex,
                 selectedCreature, gen, nextId, stepsDone, resets, call>>

\* stepSimulation, lines 684-687, creatures[i].alive: stepCreature(creatures[i], i)
Tick ==
  /\ pc = "step"
  /\ idx < PassLimit
  /\ creatures[idx + 1].alive
  /\ \E d \in TickDraws(creatures[idx + 1]) :
       \E kd \in KidDrawSeqs(creatures, selectedCreature, world, idx + 1, d) :
         \E r \in { stepCreature(creatures, selectedCreature, speciesList,
                                 world, idx + 1, d, kd, nextId) } :
           /\ creatures' = r.cs
           /\ selectedCreature' = r.sel
           /\ lastAttack' = r.attack
           /\ nextId' = nextId + r.born
  /\ idx' = idx + 1
  /\ UNCHANGED <<world, speciesList, year, paused, speedIndex, gen, pc,
                 passStartLen, stepsDone, resets, call>>

\* stepSimulation, lines 684-687, creatures[i].alive is false
SkipDead ==
  /\ pc = "step"
  /\ idx < PassLimit
  /\ ~ creatures[idx + 1].alive
  /\ idx' = idx + 1
  /\ lastAttack' = NoAttack
  /\ UNCHANGED <<world, speciesList, creatures, year, paused, speedIndex,
                 selectedCreature, gen, pc, passStartLen, nextId, stepsDone,
                 resets, call>>

\* a step that advances the year by two hundredths
NextYear_Twice(y) == y + 2

\* stepSimulation, line 696: year += 0.01
NextYear(y) == y + 1

\* stepSimulation, lines 690-696: the compaction and the year
EndStep ==
  /\ pc = "step"
  /\ ~ (idx < PassLimit)
  /\ creatures' = IF YearIsMultipleOf5(year)
                  THEN SelectSeq(creatures, LAMBDA c : c.alive)
                  ELSE creatures
  /\ year' = NextYear(year)
  /\ pc' = "idle"
  /\ stepsDone' = stepsDone + 1
  /\ lastAttack' = NoAttack
  /\ UNCHANGED <<world, speciesList, paused, speedIndex, selectedCreature,
                 gen, idx, passStartLen, nextId, resets, call>>

NextSim == BeginStep \/ Tick \/ SkipDead \/ EndStep

-----------------------------------------------------------------------------
(* The states the simulation is explored from *)

\* all sequences whose k-th element is drawn from sets[k]
RECURSIVE SeqsOver(_)
SeqsOver(sets) ==
  IF sets = <<>> THEN {<<>>}
  ELSE { <<h>> \o t : <<h, t>> \in Head(sets) \X SeqsOver(Tail(sets)) }

\* The draws explored for initWorld: a palette of water and fields, seeds in
\* the first column, species lists that begin with a terrestrial species,
\* placement attempts that draw a first-column tile of the right kind
\* whenever the world has one, a female then a male of each species
SimSeedTiles == { t \in Tiles : t.x = 0 }

\* a seed list of the palette water, desert, fields: water over the top row
\* (seed 0 wins the tie at the top right tile), desert next to fields below
DrySeeds ==
  << [x |-> 0, y |-> 0, biome |-> "water"],
     [x |-> 0, y |-> WORLD_HEIGHT - 1, biome |-> "desert"],
     [x |-> WORLD_WIDTH - 1, y |-> WORLD_HEIGHT - 1, biome |-> "fields"] >>

SimWorlds ==
  { VoronoiGrid(sd) :
      sd \in UNION { SeedListsFrom(P, 0, <<>>, SimSeedTiles, BIOMES) :
                     P \in Palettes({2}, {"fields"}) } }
  \cup { VoronoiGrid(DrySeeds) }

SimSpeciesKinds ==
  { [movementMode |-> "terrestrial", dietType |-> "herbivore", isCannibal |-> FALSE],
    [movementMode |-> "terrestrial", dietType |-> "carnivore", isCannibal |-> TRUE],
    [movementMode |-> "water", dietType |-> "omnivore", isCannibal |-> FALSE] }

SimSpeciesLists ==
  { sl \in SpeciesLists(SimSpeciesKinds) : sl[1].movementMode = "terrestrial" }

MatchingTiles(w, movementMode) ==
  { t \in Tiles : TileMatches(w, movementMode, t) }

SimTileDraws(w, movementMode) ==
  IF MatchingTiles(w, movementMode) \cap SimSeedTiles = {}
  THEN { t \in Tiles : t.x = 0 /\ t.y = 0 }
  ELSE MatchingTiles(w, movementMode) \cap SimSeedTiles

SimInitialTraits == InitialTraits(100, 110, 100)

SimSex(s) == IF s % 2 = 1 THEN "F" ELSE "M"

\* spawnInitialCreatures: the creature of slot s
SpawnSlot(w, sl, s) ==
  { Creature(s, SpawnSpecies(sl, s), t.x, t.y, SimSex(s), SimInitialTraits) :
      t \in PlacementTiles(w, SpawnSpecies(sl, s).movementMode,
                           SimTileDraws(w, SpawnSpecies(sl, s).movementMode)) }

FreshRegistries(w, sl) ==
  SeqsOver([s \in 1 .. SpawnCount |-> SpawnSlot(w, sl, s)])

\* A running simulation between two frames.  The registry is never compacted
\* after the first step, so it begins with the SpawnCount founders, whose
\* age is the number of steps taken while they live; their children are
\* born, and ticked, in the steps numbered 199 + 200 k.  Energies are those
\* a run reaches: full (60), between 50% and 70% (35), weakened by attacks (5).
Profile(age, energy, alive) == [age |-> age, energy |-> energy, alive |-> alive]

Full(age) == Profile(age, EnergyOf(60 * ONE), TRUE)

Half(age) == Profile(age, EnergyOf(35 * ONE), TRUE)

Weak(age) == Profile(age, EnergyOf(5 * ONE), TRUE)

\* c after the tick that took its age beyond max_age (lines 376-390)
DeadOfAge(c) == [Aged(c) EXCEPT !.alive = FALSE]

SnapshotSpeciesLists ==
  { sl \in SimSpeciesLists :
      sl[1].dietType = "herbivore" /\ sl[2].movementMode = "water" }

SnapshotSlot(w, id, sp, sex, profiles) ==
  { [Creature(id, sp, t.x, t.y, sex, SimInitialTraits)
       EXCEPT !.age = pr.age, !.energy = pr.energy, !.alive = pr.alive] :
      <<t, pr>> \in MatchingTiles(w, sp.movementMode) \X profiles }

\* the founders, where they were spawned
Founders(w, sl, profile) ==
  SeqsOver([s \in 1 .. SpawnCount |->
              { c \in SnapshotSlot(w, s, SpawnSpecies(sl, s), SimSex(s),
                                   {profile}) : c.x = 0 }])

\* Step 2000: the founders are one tick from their death of age; a child of
\* the first species and one of the second were born in step 1799
LastDayRegistries(w, sl) ==
  IF sl \notin SnapshotSpeciesLists THEN {}
  ELSE { f \o k :
         <<f, k>> \in
           Founders(w, sl, Full(2000))
           \X SeqsOver(<<
                SnapshotSlot(w, SpawnCount + 1, sl[1], "F", {Full(201), Weak(201)}),
                SnapshotSlot(w, SpawnCount + 2, sl[2], "M", {Full(201)}) >>) }

\* Step 2198: the founders died of age in step 2000 and are still listed;
\* their children, born in step 1999 or 1799, reach an age that is a
\* multiple of 200 in this step
SecondGenerationRegistries(w, sl) ==
  IF sl \notin SnapshotSpeciesLists THEN {}
  ELSE { f \o k :
         <<f, k>> \in
           { [s \in 1 .. SpawnCount |-> DeadOfAge(g[s])] :
               g \in Founders(w, sl, Full(2000)) }
           \X SeqsOver(<<
                SnapshotSlot(w, SpawnCount + 1, sl[1], "F",
                             {Full(199), Half(199), Weak(199)}),
                SnapshotSlot(w, SpawnCount + 2, sl[1], "M", {Full(399)})
                  \cup SnapshotSlot(w, SpawnCount + 2, sl[2], "M",
                                    {Full(199)}) >>) }

InitSim ==
  /\ world \in SimWorlds
  /\ speciesList \in SimSpeciesLists
  /\ \/ /\ creatures \in FreshRegistries(world, speciesList)
        /\ year = 0
     \/ /\ creatures \in LastDayRegistries(world, speciesList)
        /\ year = 2000
     \/ /\ creatures \in SecondGenerationRegistries(world, speciesList)
        /\ year = 2198
  /\ nextId = Len(creatures) + 1
  /\ paused = FALSE
  /\ speedIndex = 2
  /\ selectedCreature = NoCreature
  /\ gen = NoGen
  /\ pc = "idle"
  /\ idx = 0
  /\ passStartLen = 0
  /\ lastAttack = NoAttack
  /\ stepsDone = 0
  /\ resets = 0
  /\ call = NoCall

Spec == InitSim /\ [][NextSim]_vars

-----------------------------------------------------------------------------
(* Properties of the simulation *)

Registry == 1 .. Len(creatures)

\* the pass of stepSimulation is about to tick creatures[idx + 1]
AtTick == pc = "step" /\ idx < PassLimit /\ creatures[idx + 1].alive

\* the pass of stepSimulation has run through the whole registry
PassOver == pc = "step" /\ ~ (idx < PassLimit)

\* C1 -- Energy bounds: in every reachable state every creature of the
\* registry, living or dead, has 0 <= energy <= its stomach_capacity.
\* The code breaks it: resolveAttack and the hunger deduction leave the
\* energy of the creature they kill at or below 0, unclamped.
C1_EnergyBounds ==
  \A k \in Registry :
    0 <= creatures[k].energy /\ creatures[k].energy <= Capacity(creatures[k])

\* C2 -- Movement-mode containment: in every reachable state every water
\* creature stands on a water tile and every terrestrial creature on a
\* non-water tile.  The code breaks it: the placement fallback, and a move
\* whose destination lies outside the grid, which getBiome reports as fields
\* before the coordinates are clamped onto a real tile.
C2_Containment ==
  \A k \in Registry :
    TileMatches(world, creatures[k].movementMode,
                [x |-> creatures[k].x, y |-> creatures[k].y])

\* C3 -- A dead creature is inert: once alive is false it never becomes true
\* again, age, energy and position never change, stepCreature has no effect
\* on it, neither findNearbyCreature nor the mate search returns it, and it
\* stays in the list until the compaction at the end of a step removes it.
C3_Queries ==
  \A i \in Registry :
    /\ findNearbyCreature(creatures, i, 1) # 0
         => creatures[findNearbyCreature(creatures, i, 1)].alive
    /\ FindMate(creatures, i) # 0 => creatures[FindMate(creatures, i)].alive
    /\ ~ creatures[i].alive =>
         \A d \in TickDraws(creatures[i]) :
           stepCreature(creatures, selectedCreature, speciesList, world, i, d,
                        <<>>, nextId)
             = [cs |-> creatures, sel |-> selectedCreature,
                attack |-> NoAttack, born |-> 0]

C3_Frozen ==
  \A k \in Registry :
    ~ creatures[k].alive =>
      \/ k <= Len(creatures') /\ creatures'[k] = creatures[k]
      \/ /\ PassOver
         /\ pc' = "idle"
         /\ \A j \in 1 .. Len(creatures') :
              creatures'[j].alive /\ creatures'[j].id # creatures[k].id

C3_DeadInert == []C3_Queries /\ [][C3_Frozen]_vars

\* an attack has just struck its target although a dead creature stands
\* within reach of the attacker, earlier in the registry
C3_Witness ==
  /\ lastAttack.attacker # 0
  /\ \E a, t, k \in Registry :
       /\ creatures[a].id = lastAttack.attacker
       /\ creatures[t].id = lastAttack.target
       /\ k < t
       /\ k # a
       /\ ~ creatures[k].alive
       /\ (creatures[k].x - creatures[a].x) * (creatures[k].x - creatures[a].x)
          + (creatures[k].y - creatures[a].y) * (creatures[k].y - creatures[a].y)
          <= 1

C5_CompactionEveryFifthStep ==
  (pc = "idle" /\ stepsDone > 0 /\ (year - 1) % 5 = 0) =>
    \A k \in Registry : creatures[k].alive

\* C6 -- Predation eligibility: for every outcome of the random draws the
\* tick of a herbivore never calls resolveAttack, so no other creature loses
\* energy or its life to it (the mate of a herbivore that reproduces pays
\* half of its energy, and nothing else).
C6_NoAttackByHerbivore ==
  lastAttack.attacker # 0 =>
    \E a \in Registry :
      /\ creatures[a].id = lastAttack.attacker
      /\ creatures[a].dietType \in {"carnivore", "omnivore"}

C6_HerbivoreTick ==
  (AtTick /\ creatures[idx + 1].dietType = "herbivore") =>
    \A k \in Registry :
      k # idx + 1 =>
        /\ creatures'[k].alive = creatures[k].alive
        /\ \/ creatures'[k].energy = creatures[k].energy
           \/ /\ Len(creatures') > Len(creatures)
              /\ creatures'[k].energy = creatures[k].energy \div 2

C6_HerbivoresNeverAttack ==
  []C6_NoAttackByHerbivore /\ [][C6_HerbivoreTick]_vars

\* a herbivore has just been ticked next to a living creature of another
\* species, and no attack took place
C6_Witness ==
  /\ pc = "step"
  /\ idx > 0
  /\ creatures[idx].alive
  /\ creatures[idx].age > 0
  /\ creatures[idx].dietType = "herbivore"
  /\ lastAttack = NoAttack
  /\ \E t \in Registry :
       /\ t # idx
       /\ creatures[t].alive
       /\ creatures[t].speciesId # creatures[idx].speciesId
       /\ creatures[t].x = creatures[idx].x
       /\ (creatures[t].y - creatures[idx].y) \in {-1, 1}
       /\ \A j \in 1 .. (t - 1) : j = idx \/ ~ creatures[j].alive

\* The conditions of a reproduction, read off the registry cs in which the
\* creature cs[i] reaches the last statement of its tick
EligibleMate(cs, i, j) ==
  /\ j # i
  /\ cs[j].alive
  /\ cs[j].speciesId = cs[i].speciesId
  /\ cs[j].sex # cs[i].sex
  /\ (cs[j].x - cs[i].x) \in {-1, 0, 1}
  /\ (cs[j].y - cs[i].y) \in {-1, 0, 1}
  /\ 2 * cs[j].energy >= Capacity(cs[j])

HasMate(cs, i) == \E j \in 1 .. Len(cs) : EligibleMate(cs, i, j)

FirstMate(cs, i) ==
  CHOOSE j \in 1 .. Len(cs) :
    EligibleMate(cs, i, j) /\ \A k \in 1 .. (j - 1) : ~ EligibleMate(cs, i, k)

AgeMultiple(c) ==
  \E m \in 0 .. (c.age \div 80) : c.age * ONE = m * c.traits.repro_cooldown

\* n = round((o1 + o2) / 2), halves rounded up
RoundedMean(cs, i, j, n) ==
  /\ (2 * n - 1) * ONE
       <= cs[i].traits.offspring_per_cycle + cs[j].traits.offspring_per_cycle
  /\ cs[i].traits.offspring_per_cycle + cs[j].traits.offspring_per_cycle
       < (2 * n + 1) * ONE

\* the ticks of creatures[idx + 1], one per outcome of the draws: h is the
\* state at the reproduction test, r the result of the tick
TickOutcomes ==
  { [h |-> TickHead(creatures, selectedCreature, world, idx + 1, x[1]),
     kd |-> x[2],
     r |-> stepCreature(creatures, selectedCreature, speciesList, world,
                        idx + 1, x[1], x[2], nextId)] :
    x \in UNION { {d} \X KidDrawSeqs(creatures, selectedCreature, world,
                                     idx + 1, d) :
                  d \in TickDraws(creatures[idx + 1]) } }

\* C7 -- Reproduction success: whenever a living creature is ticked while a
\* living creature of its species and of the opposite sex is on an adjacent
\* tile, both have energy >= 50% of their stomach_capacity and the ticking
\* creature's age is a multiple of its repro_cooldown, the tick appends
\* exactly round((o1 + o2) / 2) creatures.  (Read at the reproduction test.)
C7_HalfEnergySuffices ==
  AtTick =>
    \A o \in TickOutcomes :
      ( /\ ~ o.h.died
        /\ 2 * o.h.cs[idx + 1].energy >= Capacity(o.h.cs[idx + 1])
        /\ AgeMultiple(o.h.cs[idx + 1])
        /\ HasMate(o.h.cs, idx + 1) )
      => RoundedMean(o.h.cs, idx + 1, FirstMate(o.h.cs, idx + 1),
                     Len(o.r.cs) - Len(creatures))

\* C7, as the code has it -- the ticking creature needs energy above 70% of
\* its stomach_capacity, the mate at least 50%, all read at the reproduction
\* test that ends the tick (after its age increment, hunger, regeneration,
\* move, meal and attack); o2 is that of the first such mate of the registry.
C7_ReproductionSuccess ==
  AtTick =>
    \A o \in TickOutcomes :
      ( /\ ~ o.h.died
        /\ o.h.cs[idx + 1].energy > 7 * (Capacity(o.h.cs[idx + 1]) \div 10)
        /\ AgeMultiple(o.h.cs[idx + 1])
        /\ HasMate(o.h.cs, idx + 1) )
      => RoundedMean(o.h.cs, idx + 1, FirstMate(o.h.cs, idx + 1),
                     Len(o.r.cs) - Len(creatures))

\* a creature whose age is a multiple of its repro_cooldown has just been
\* ticked, and the registry has grown by its child
C7_Witness ==
  /\ pc = "step"
  /\ idx > 0
  /\ idx <= passStartLen
  /\ Len(creatures) = passStartLen + 1
  /\ creatures[Len(creatures)].age = 0
  /\ AgeMultiple(creatures[idx])
  /\ creatures[idx].age > 0
  /\ HasMate(creatures, idx)

\* the calls of attemptReproduction made by the ticks of creatures[idx + 1]:
\* cs is the registry at the call, r the registry it leaves
ReproductionCalls ==
  { [cs |-> o.h.cs, kd |-> o.kd,
     r |-> attemptReproduction(o.h.cs, speciesList, idx + 1, o.kd, nextId).cs] :
    o \in { o \in TickOutcomes :
              ~ o.h.died /\ ReproGate(o.h.cs[idx + 1]) } }

C9_Offspring ==
  AtTick =>
    \A a \in ReproductionCalls :
      /\ Len(a.r) >= Len(a.cs)
      /\ \A k \in 1 .. Len(a.cs) : a.r[k].id = a.cs[k].id
      /\ \A k \in (Len(a.cs) + 1) .. Len(a.r) :
           /\ a.r[k].x = a.cs[idx + 1].x
           /\ a.r[k].y = a.cs[idx + 1].y
           /\ a.r[k].speciesId = a.cs[idx + 1].speciesId
           /\ a.r[k].movementMode = a.cs[idx + 1].movementMode
           /\ a.r[k].dietType = a.cs[idx + 1].dietType
           /\ a.r[k].isCannibal = a.cs[idx + 1].isCannibal
           /\ a.r[k].age = 0
           /\ a.r[k].energy = 50 * ONE * EPT
           /\ a.r[k].alive
           /\ \A j \in 1 .. Len(a.cs) : a.r[k].id # a.cs[j].id

\* a child has just been appended, on the tile of the creature that was
\* ticked, while the other parent stands on another tile
C9_Witness ==
  /\ pc = "step"
  /\ idx > 0
  /\ Len(creatures) = passStartLen + 1
  /\ creatures[Len(creatures)].age = 0
  /\ creatures[Len(creatures)].x = creatures[idx].x
  /\ creatures[Len(creatures)].y = creatures[idx].y
  /\ creatures[Len(creatures)].speciesId = creatures[idx].speciesId
  /\ \A m \in Registry :
       ( /\ m # idx
         /\ m # Len(creatures)
         /\ creatures[m].alive
         /\ creatures[m].speciesId = creatures[idx].speciesId )
       => creatures[m].x # creatures[idx].x

\* the tick of a living herbivore that stands on woods, fields or swamp and
\* has no regeneration, when the tick neither kills it nor attacks nor
\* reproduces: e becomes min(stomach_capacity, e - metabolism_rate
\* + 1.0 * 0.5 * food_efficiency)
C14_GrazingTick ==
  ( /\ AtTick
    /\ idx' = idx + 1
    /\ creatures[idx + 1].dietType = "herbivore"
    /\ getBiome(world, creatures[idx + 1].x, creatures[idx + 1].y)
         \in {"woods", "fields", "swamp"}
    /\ creatures[idx + 1].traits.regen_rate = 0
    /\ creatures'[idx + 1].alive
    /\ lastAttack' = NoAttack
    /\ Len(creatures') = Len(creatures) )
  => creatures'[idx + 1].energy
       = Min(EnergyOf(creatures[idx + 1].traits.stomach_capacity),
             creatures[idx + 1].energy
               - EnergyOf(creatures[idx + 1].traits.metabolism_rate)
               + (10 * EnergyOf(creatures[idx + 1].traits.food_efficiency))
                   \div 20)

\* C14 -- One-tick energy of a grazing herbivore: for a living herbivore on a
\* woods, fields or swamp tile with regen_rate 0 whose tick neither attacks
\* nor reproduces nor dies, one tick changes energy from e to
\* min(stomach_capacity, e - metabolism_rate + 1.0 * 0.5 * food_efficiency);
\* with the baseline genome and e = 50 the result is 50.47.
C14_GrazingHerbivore == [][C14_GrazingTick]_vars

\* a founder herbivore, metabolism_rate 0.03 and food_efficiency 1, has just
\* had its first tick and holds 50.47
C14_Witness ==
  /\ pc = "step"
  /\ idx > 0
  /\ year = 0
  /\ creatures[idx].alive
  /\ creatures[idx].dietType = "herbivore"
  /\ creatures[idx].age = 1
  /\ creatures[idx].traits.metabolism_rate = 3 * (ONE \div 100)
  /\ creatures[idx].traits.food_efficiency = ONE
  /\ creatures[idx].energy = EnergyOf(5047 * (ONE \div 100))

\* the tick of a creature that the death check stops: it is aged, charged its
\* hunger and marked dead, and nothing else in the registry changes
C20_DeathTick ==
  ( /\ AtTick
    /\ idx' = idx + 1
    /\ \/ (creatures[idx + 1].age + 1) * ONE > creatures[idx + 1].traits.max_age
       \/ creatures[idx + 1].energy - Hunger(creatures[idx + 1]) <= 0 )
  => /\ creatures' =
          [creatures EXCEPT ![idx + 1] =
             [@ EXCEPT !.alive = FALSE, !.age = @ + 1,
                       !.energy = @ - Hunger(creatures[idx + 1])]]
     /\ lastAttack' = NoAttack
     /\ nextId' = nextId
     /\ selectedCreature' \in {selectedCreature, NoCreature}

\* C20 -- Death check stops the tick: when, after age += 1 and the hunger
\* deduction, age > max_age or energy <= 0, the tick sets alive = false and
\* has no further effect: the position is unchanged, no regeneration or food
\* energy is gained, no attack is resolved, no offspring is appended and no
\* other creature's state changes.
C20_DeathStopsTick == [][C20_DeathTick]_vars

\* a founder has just been ticked beyond its max_age: it is dead, and charged
\* its hunger without the meal that would have filled it again
C20_Witness ==
  /\ pc = "step"
  /\ idx > 0
  /\ stepsDone = 0
  /\ ~ creatures[idx].alive
  /\ creatures[idx].age * ONE = creatures[idx].traits.max_age + ONE
  /\ creatures[idx].energy
       = EnergyOf(creatures[idx].traits.stomach_capacity) - Hunger(creatures[idx])
  /\ year = 2000

-----------------------------------------------------------------------------
(* Genomes on their own: mixTraits and applyMutation, called as              *)
(* attemptReproduction calls them (lines 523-527), one generation after     *)
(* the other                                                                *)

MaxGenerations == 2

\* every variable but the frame of the examined function
nonCallVars == <<world, speciesList, creatures, year, paused, speedIndex,
                 selectedCreature, gen, pc, idx, passStartLen, lastAttack,
                 nextId, stepsDone, resets>>

\* the rest of the program while a function is examined on its own
OutsideSimulation ==
  /\ world = NullWorld
  /\ speciesList = <<>>
  /\ creatures = <<>>
  /\ year = 0
  /\ paused = FALSE
  /\ speedIndex = 2
  /\ selectedCreature = NoCreature
  /\ gen = NoGen
  /\ pc = "call"
  /\ idx = 0
  /\ passStartLen = 0
  /\ lastAttack = NoAttack
  /\ nextId = 1
  /\ stepsDone = 0
  /\ resets = 0

\* the traits applyMutation clamps (lines 317-323)
ClampedTraits ==
  {"size", "max_speed", "armor", "attack_damage", "offspring_per_cycle",
   "repro_cooldown", "vision_radius"}

\* delta = Math.random() * 0.4 - 0.2 lies in [-0.2, 0.2): its two ends
GenomeDeltas == {- Tenths(2), Tenths(2) - 1}

\* the draws of an applyMutation call that changes key by delta and nothing else
SingleMutation(key, delta) ==
  [NoMutation EXCEPT !.key1 = key, !.delta1 = delta]

\* n successive applyMutation calls that all draw the same key and delta
\* (the first half of the calls, then the second half)
RECURSIVE Drift(_, _, _, _)
Drift(t, key, delta, n) ==
  IF n = 0 THEN t
  ELSE IF n = 1 THEN applyMutation(t, SingleMutation(key, delta))
  ELSE Only({ Drift(t1, key, delta, n - (n \div 2)) :
                t1 \in { Drift(t, key, delta, n \div 2) } })

\* spawnInitialCreatures, lines 266-270: the ends of the initial variation
GenomeFounders == { InitialTraits(f, f, f) : f \in {80, 119} }

\* genomes that a line of mutations carries next to a clamp: the key, the
\* delta and the number of applyMutation calls from the baseline
DriftCases ==
  { <<"size", - Tenths(2), 3>>, <<"size", Tenths(2) - 1, 10>>,
    <<"max_speed", - Tenths(2), 4>>, <<"max_speed", Tenths(2) - 1, 15>>,
    <<"armor", Tenths(2) - 1, 25>>,
    <<"attack_damage", - Tenths(2), 4>>,
    <<"offspring_per_cycle", Tenths(2) - 1, 20>>,
    <<"vision_radius", - Tenths(2), 10>>,
    <<"vision_radius", Tenths(2) - 1, 75>>,
    <<"repro_cooldown", - Tenths(2), 600>>,
    <<"repro_cooldown", Tenths(2) - 1, 1500>> }

GenomeDrifted ==
  { Drift(createBaselineTraits, c[1], c[2], c[3]) : c \in DriftCases }

\* the mutation draws explored: one clamped trait; the same trait twice; two
\* traits, one of them without a clamp; a flipped boolean trait with a
\* change of regen_rate
GenomeMutationDraws ==
  { SingleMutation(k, d) : <<k, d>> \in ClampedTraits \X GenomeDeltas }
  \cup
  { [SingleMutation(k, d) EXCEPT !.two = TRUE, !.key2 = k, !.delta2 = d] :
      <<k, d>> \in ClampedTraits \X GenomeDeltas }
  \cup
  { [SingleMutation(k, d)
       EXCEPT !.two = TRUE, !.key2 = "spine_damage", !.delta2 = d] :
      <<k, d>> \in {"size", "armor"} \X GenomeDeltas }
  \cup
  { [SingleMutation("regen_rate", Tenths(1))
       EXCEPT !.flip = TRUE, !.flipKey = k] : k \in MUTABLE_BOOLEAN_TRAITS }

\* mixTraits, line 560: the draws for the boolean traits on which a and b differ
MixPicks(a, b) ==
  { [k \in BooleanTraits |-> IF a[k] # b[k] THEN f[k] ELSE TRUE] :
      f \in [{ k \in BooleanTraits : a[k] # b[k] } -> BOOLEAN] }

InitGenome ==
  /\ OutsideSimulation
  /\ call \in { [fn |-> "none", a |-> a, b |-> b, arg |-> a, out |-> a,
                 m |-> NoMutation, n |-> 0] :
                <<a, b>> \in { ab \in (GenomeFounders \cup GenomeDrifted)
                                       \X (GenomeFounders \cup GenomeDrifted) :
                                 ab[2] \in GenomeFounders \/ ab[2] = ab[1] } }

\* attemptReproduction, line 523: childTraits = mixTraits(creature.traits, mate.traits)
CallMixTraits ==
  /\ call.fn \in {"none", "Creature"}
  /\ call.n < MaxGenerations
  /\ \E p \in MixPicks(call.a, call.b) :
       call' = [call EXCEPT !.fn = "mixTraits", !.arg = call.a,
                            !.out = mixTraits(call.a, call.b, p),
                            !.m = NoMutation, !.n = @ + 1]
  /\ UNCHANGED nonCallVars

\* attemptReproduction, lines 526-527: mutatedTraits = applyMutation(childTraits)
CallApplyMutation ==
  /\ call.fn = "mixTraits"
  /\ \E m \in GenomeMutationDraws :
       call' = [call EXCEPT !.fn = "applyMutation", !.arg = call.out,
                            !.out = applyMutation(call.out, m), !.m = m]
  /\ UNCHANGED nonCallVars

\* attemptReproduction, lines 528-542: the child's traits become those of a
\* creature, a parent of the next generation
CallCreature ==
  /\ call.fn \in {"mixTraits", "applyMutation"}
  /\ call.n < MaxGenerations
  /\ \/ call' = [call EXCEPT !.fn = "Creature", !.a = call.out]
     \/ call' = [call EXCEPT !.fn = "Creature", !.b = call.out]
  /\ UNCHANGED nonCallVars

NextGenome == CallMixTraits \/ CallApplyMutation \/ CallCreature

SpecGenome == InitGenome /\ [][NextGenome]_vars

\* the bounds the claim gives for the clamped traits
InClamps(t) ==
  /\ 3 * (ONE \div 10) <= t.size /\ t.size <= 3 * ONE
  /\ 2 * (ONE \div 10) <= t.max_speed /\ t.max_speed <= 4 * ONE
  /\ 0 <= t.armor /\ t.armor <= 5 * ONE
  /\ ONE \div 10 <= t.attack_damage
  /\ ONE <= t.offspring_per_cycle /\ t.offspring_per_cycle <= 5 * ONE
  /\ 80 * ONE <= t.repro_cooldown /\ t.repro_cooldown <= 500 * ONE
  /\ 3 * ONE <= t.vision_radius /\ t.vision_radius <= 20 * ONE

\* C11 -- Mutation clamps: every genome reached from the initial genomes by
\* mixTraits and applyMutation calls has size in [0.3, 3], max_speed in
\* [0.2, 4], armor in [0, 5], attack_damage >= 0.1, offspring_per_cycle in
\* [1, 5], repro_cooldown in [80, 500] and vision_radius in [3, 20].
C11_MutationClamps ==
  InClamps(call.a) /\ InClamps(call.b) /\ InClamps(call.arg) /\ InClamps(call.out)

\* an applyMutation call whose delta would have carried a trait out of its
\* interval, and a child of the second generation
C11_Witness ==
  /\ call.fn = "applyMutation"
  /\ call.n = MaxGenerations
  /\ \E k \in ClampedTraits :
       /\ call.m.key1 = k
       /\ call.out[k] # call.arg[k] + call.m.delta1
            + (IF call.m.two THEN call.m.delta2 ELSE 0)
       /\ call.out[k] \in {80 * ONE, 500 * ONE}

\* the child of a mixTraits call: the keys of a; every numeric trait the mean
\* of the parents' values (to the last digit held); every boolean trait the
\* value of one of the parents
C12_Child ==
  call.fn = "mixTraits" =>
    /\ DOMAIN call.out = DOMAIN call.a
    /\ \A k \in DOMAIN call.a :
         IF k \in BooleanTraits
         THEN call.out[k] \in {call.a[k], call.b[k]}
         ELSE /\ 2 * call.out[k] <= call.a[k] + call.b[k]
              /\ call.a[k] + call.b[k] <= 2 * call.out[k] + 1

\* a mixTraits call leaves both parents' genomes as they were
C12_ParentsKept ==
  call'.fn = "mixTraits" => call'.a = call.a /\ call'.b = call.b

\* C12 -- Crossover: mixTraits(a, b) has exactly the trait keys of a; every
\* numeric trait of the child, metabolism_rate included, is (a + b) / 2;
\* every boolean trait is a's value or b's; neither parent is modified.
C12_Crossover == []C12_Child /\ [][C12_ParentsKept]_vars

\* parents that differ in a numeric and in a boolean trait, a child that
\* takes the boolean of the second parent and whose metabolism_rate is not
\* the value the metabolism formula gives for its traits
C12_Witness ==
  /\ call.fn = "mixTraits"
  /\ call.a.regen_rate # call.b.regen_rate
  /\ call.a.has_venom # call.b.has_venom
  /\ call.out.has_venom = call.b.has_venom
  /\ 2 * call.out.metabolism_rate = call.a.metabolism_rate + call.b.metabolism_rate
  /\ call.out.metabolism_rate # Metabolism(call.out)

-----------------------------------------------------------------------------
(* resolveAttack on its own: an attacker, creatures[1], and a target,         *)
(* creatures[2], whose traits are those that mutations reach                *)

\* the baseline genome with the traits resolveAttack reads set as mutations
\* set them, and the metabolism_rate applyMutation then computes
AttackTraits(attack, armor, spines, venom, hasVenom) ==
  Only({ [t EXCEPT !.metabolism_rate = Metabolism(t)] :
         t \in { [createBaselineTraits
                    EXCEPT !.attack_damage = attack, !.armor = armor,
                           !.spine_damage = spines, !.venom_power = venom,
                           !.has_venom = hasVenom] } })

AttackSpecies ==
  << Species(0, "terrestrial", "carnivore", FALSE),
     Species(1, "terrestrial", "herbivore", FALSE) >>

\* the attackers: attack_damage 1 or 5, with and without venom
Attackers ==
  { [Creature(1, AttackSpecies[1], 0, 0, "F",
              AttackTraits(attack, 0, 0, venom, hasVenom))
       EXCEPT !.age = 10, !.energy = e] :
    <<attack, venom, hasVenom, e>> \in
       {ONE, 5 * ONE} \X {0, 2 * ONE} \X BOOLEAN
       \X {EnergyOf(60 * ONE), EnergyOf(35 * ONE)} }

\* the targets: armor 0, 2 or 5, with and without spines.  The energy -1 is
\* that of a living creature that attacked a spiny one with 2 units left
\* (line 479 takes 3 per unit of spine_damage, and only a creature's own
\* tick, at line 386, marks it dead for lack of energy)
Targets ==
  { [Creature(2, AttackSpecies[2], 0, 0, "M",
              AttackTraits(ONE, armor, spines, 0, FALSE))
       EXCEPT !.age = 10, !.energy = e] :
    <<armor, spines, e>> \in
       {0, 2 * ONE, 5 * ONE} \X {0, ONE}
       \X {EnergyOf(- ONE), EnergyOf(5 * ONE), EnergyOf(20 * ONE),
           EnergyOf(50 * ONE)} }

InitAttack ==
  /\ world = [y \in Ys |-> [x \in Xs |-> IF x = 0 /\ y = 0 THEN "fields"
                                          ELSE "water"]]
  /\ speciesList = AttackSpecies
  /\ creatures \in { <<a, t>> : <<a, t>> \in Attackers \X Targets }
  /\ year = 10
  /\ paused = FALSE
  /\ speedIndex = 2
  /\ selectedCreature \in {NoCreature, 2}
  /\ gen = NoGen
  /\ pc = "call"
  /\ idx = 0
  /\ passStartLen = 2
  /\ lastAttack = NoAttack
  /\ nextId = 3
  /\ stepsDone = 0
  /\ resets = 0
  /\ call = NoCall

\* stepCreature, line 442: resolveAttack(creature, target)
CallResolveAttack ==
  /\ pc = "call"
  /\ call.fn = "none"
  /\ \E r \in { resolveAttack(creatures, selectedCreature, 1, 2) } :
       /\ creatures' = r.cs
       /\ selectedCreature' = r.sel
  /\ lastAttack' = [attacker |-> creatures[1].id, target |-> creatures[2].id,
                    damage |-> AttackDamage(creatures[1], creatures[2])]
  /\ call' = [fn |-> "resolveAttack", before |-> creatures]
  /\ UNCHANGED <<world, speciesList, year, paused, speedIndex, gen, pc, idx,
                 passStartLen, nextId, stepsDone, resets>>

NextAttack == CallResolveAttack

SpecAttack == InitAttack /\ [][NextAttack]_vars

\* the damage as the claim words it
ClaimedDamage(a, t) ==
  Max(0, a.traits.attack_damage + a.traits.bite_force
         - (t.traits.armor + 2 * t.traits.shell_hardness))

\* the venom deduction as the claim words it
ClaimedVenom(a) ==
  IF a.traits.has_venom /\ a.traits.venom_power > 0
  THEN EnergyOf(2 * a.traits.venom_power) ELSE 0

\* the spine deduction as the claim words it
ClaimedSpines(t) ==
  IF t.traits.spine_damage > 0 THEN EnergyOf(3 * t.traits.spine_damage) ELSE 0

\* C13 -- Attack damage: resolveAttack computes damage = max(0, attack_damage
\* + bite_force - (armor + 2 * shell_hardness)).  When damage <= 0 no field
\* of attacker or target changes.  When damage > 0 the target's energy drops
\* by damage * 5, plus venom_power * 2 when the attacker has venom of positive
\* power, and the attacker's energy drops by spine_damage * 3 when the
\* target has spines (the meal of lines 491-494 is added to it afterwards
\* when the target is killed); nothing but energy and alive changes.
C13_AttackDamage ==
  call.fn = "resolveAttack" =>
    LET a == call.before[1]
        t == call.before[2]
        damage == ClaimedDamage(a, t)
    IN  /\ lastAttack.damage = damage
        /\ damage <= 0 => creatures = call.before
        /\ damage > 0 =>
             /\ creatures[2].energy
                  = t.energy - EnergyOf(5 * damage) - ClaimedVenom(a)
             /\ creatures[2].alive =>
                  creatures[1].energy = a.energy - ClaimedSpines(t)
             /\ ~ creatures[2].alive =>
                  creatures[1].energy
                    = Min(Capacity(a),
                          a.energy - ClaimedSpines(t)
                            + EnergyOf(30 * a.traits.food_efficiency))
             /\ [creatures[1] EXCEPT !.energy = 0] = [a EXCEPT !.energy = 0]
             /\ [creatures[2] EXCEPT !.energy = 0, !.alive = TRUE]
                  = [t EXCEPT !.energy = 0]

\* attack 5 + bite 1 against armor 2, shell 0, no venom: the target, which
\* had 50, is left with exactly 30
C13_Witness ==
  /\ call.fn = "resolveAttack"
  /\ call.before[1].traits.attack_damage = 5 * ONE
  /\ call.before[1].traits.bite_force = ONE
  /\ ~ call.before[1].traits.has_venom
  /\ call.before[2].traits.armor = 2 * ONE
  /\ call.before[2].traits.shell_hardness = 0
  /\ call.before[2].energy = EnergyOf(50 * ONE)
  /\ creatures[2].energy = EnergyOf(30 * ONE)
  /\ creatures[2].alive

-----------------------------------------------------------------------------
(* The simulation with its controls: the handlers of the canvas, the speed   *)
(* slider, the pause button and the reset button run between two frames     *)

TILE_SIZE == 10

MaxResets == 1

\* the slider positions explored: Frozen and Normal
SliderValues == {0, 2}

\* the click points explored, on both axes of the canvas (in pixels)
ClickPoints == {0, TILE_SIZE \div 2, WORLD_WIDTH * TILE_SIZE - 1}

\* onCanvasClick, lines 665-669: the squared distance of creature c
ClickDist2(c, mx, my) ==
  (mx - (c.x * TILE_SIZE + TILE_SIZE \div 2))
    * (mx - (c.x * TILE_SIZE + TILE_SIZE \div 2))
  + (my - (c.y * TILE_SIZE + TILE_SIZE \div 2))
      * (my - (c.y * TILE_SIZE + TILE_SIZE \div 2))

\* a click that does not skip the dead (line 664)
ClickTarget_AnyCreature(cs, mx, my) ==
  LET near == { j \in 1 .. Len(cs) :
                  ClickDist2(cs[j], mx, my)
                    < (TILE_SIZE * 2) * (TILE_SIZE * 2) }
  IN  IF near = {} THEN NoCreature
      ELSE cs[CHOOSE j \in near :
                 \A k \in near :
                   \/ ClickDist2(cs[j], mx, my) < ClickDist2(cs[k], mx, my)
                   \/ /\ ClickDist2(cs[j], mx, my) = ClickDist2(cs[k], mx, my)
                      /\ j <= k].id

\* onCanvasClick, lines 660-674: the identity of best, NoCreature for null.
\* A creature replaces best only when it is strictly closer.
ClickTarget(cs, mx, my) ==
  LET near == { j \in 1 .. Len(cs) :
                  /\ cs[j].alive
                  /\ ClickDist2(cs[j], mx, my)
                       < (TILE_SIZE * 2) * (TILE_SIZE * 2) }
  IN  IF near = {} THEN NoCreature
      ELSE cs[CHOOSE j \in near :
                 \A k \in near :
                   \/ ClickDist2(cs[j], mx, my) < ClickDist2(cs[k], mx, my)
                   \/ /\ ClickDist2(cs[j], mx, my) = ClickDist2(cs[k], mx, my)
                      /\ j <= k].id

onCanvasClick ==
  /\ pc = "idle"
  /\ \E mx \in ClickPoints, my \in ClickPoints :
       selectedCreature' = ClickTarget(creatures, mx, my)
  /\ UNCHANGED <<world, speciesList, creatures, year, paused, speedIndex,
                 gen, pc, idx, passStartLen, lastAttack, nextId, stepsDone,
                 resets, call>>

onSpeedChange ==
  /\ pc = "idle"
  /\ \E v \in SliderValues : speedIndex' = v
  /\ UNCHANGED <<world, speciesList, creatures, year, paused,
                 selectedCreature, gen, pc, idx, passStartLen, lastAttack,
                 nextId, stepsDone, resets, call>>

onPauseClick ==
  /\ pc = "idle"
  /\ paused' = ~ paused
  /\ UNCHANGED <<world, speciesList, creatures, year, speedIndex,
                 selectedCreature, gen, pc, idx, passStartLen, lastAttack,
                 nextId, stepsDone, resets, call>>

\* a spawn that keeps the creatures of the previous world
spawnInitialCreatures_Append(old, fresh) == old \o fresh

\* spawnInitialCreatures, line 260: creatures = []; then the pushes
spawnInitialCreatures(old, fresh) == fresh

\* the creatures of reg as objects created from identity base on
Renumbered(reg, base) ==
  [k \in 1 .. Len(reg) |-> [reg[k] EXCEPT !.id = base + k - 1]]

\* the worlds explored for a reset: water above fields, or water everywhere
ResetWorlds ==
  { w \in SimWorlds :
      \A y \in Ys : w[y][0] \in (IF y = 0 THEN {"water"} ELSE {"fields", "water"}) }

\* onResetClick: initWorld(), lines 726-730
onResetClick ==
  /\ pc = "idle"
  /\ resets < MaxResets
  /\ \E w \in ResetWorlds :
       \E sl \in SnapshotSpeciesLists :
         \E reg \in FreshRegistries(w, sl) :
           /\ world' = w
           /\ speciesList' = sl
           /\ creatures' = spawnInitialCreatures(creatures,
                                                 Renumbered(reg, nextId))
  /\ nextId' = nextId + SpawnCount
  /\ year' = 0
  /\ selectedCreature' = NoCreature
  /\ stepsDone' = 0
  /\ resets' = resets + 1
  /\ UNCHANGED <<paused, speedIndex, gen, pc, idx, passStartLen, lastAttack,
                 call>>

NextUI ==
  \/ BeginStep \/ Tick \/ SkipDead \/ EndStep
  \/ onCanvasClick \/ onSpeedChange \/ onPauseClick \/ onResetClick

\* the running simulations the controls are explored from
InitUI ==
  /\ InitSim
  /\ speciesList \in SnapshotSpeciesLists
  /\ \A y \in Ys : world[y][0] = (IF y = 0 THEN "water" ELSE "fields")
  /\ \A k \in 1 .. Len(creatures) :
       ~ creatures[k].alive \/ creatures[k].energy = Capacity(creatures[k])

SpecUI == InitUI /\ [][NextUI]_vars

\* the world a reset leaves: year 0, the species 0 .. NUM_SPECIES - 1,
\* INDIVIDUALS new creatures of each, all alive with age 0 and energy 50,
\* none of them an object of the previous registry, and nothing selected
C15_Reset ==
  resets' = resets + 1 =>
    /\ year' = 0
    /\ Len(speciesList') = NUM_SPECIES
    /\ \A i \in 1 .. NUM_SPECIES : speciesList'[i].id = i - 1
    /\ Len(creatures') = NUM_SPECIES * INDIVIDUALS
    /\ \A i \in 1 .. NUM_SPECIES :
         Cardinality({ k \in 1 .. Len(creatures') :
                         creatures'[k].speciesId = i - 1 }) = INDIVIDUALS
    /\ \A k \in 1 .. Len(creatures') :
         /\ creatures'[k].alive
         /\ creatures'[k].age = 0
         /\ creatures'[k].energy = EnergyOf(50 * ONE)
         /\ \A j \in 1 .. Len(creatures) : creatures'[k].id # creatures[j].id
    /\ selectedCreature' = NoCreature

\* C15 -- World reset: from any reachable state (steps, deaths, births,
\* clicks, paused or not) initWorld leaves year = 0, a species list of exactly
\* 10 species with ids 0..9 and a creature list of exactly 150 creatures, 15
\* per species, all alive with age 0 and energy 50, with no creature of the
\* previous world remaining and no creature selected.  (10 and 15 are
\* NUM_SPECIES and INDIVIDUALS here.)
C15_WorldReset == [][C15_Reset]_vars

\* a reset has been made while the simulation was paused, after a step in
\* which a creature was born
C15_Witness ==
  /\ resets = 1
  /\ paused
  /\ stepsDone = 0
  /\ year = 0
  /\ Len(creatures) = NUM_SPECIES * INDIVIDUALS
  /\ nextId > 2 * NUM_SPECIES * INDIVIDUALS + 3
  /\ selectedCreature = NoCreature

\* the year changes only at the end of a stepSimulation call, by one
\* addition of 0.01, and at a reset, to 0
C16_YearStep ==
  /\ (pc = "step" /\ pc' = "idle") =>
       (year' = year + 1 /\ stepsDone' = stepsDone + 1)
  /\ year' # year =>
       \/ pc = "step" /\ pc' = "idle"
       \/ resets' = resets + 1 /\ year' = 0
  /\ year' < year => resets' = resets + 1

\* since the last reset the year is the number of steps taken, in hundredths
C16_YearIsStepCount == resets > 0 => year = stepsDone

-----------------------------------------------------------------------------
(* findRandomTileForSpecies on its own, one iteration of its loop at a time *)

NoTile == [x |-> -1, y |-> -1]

InitPlacement ==
  /\ world \in SimWorlds
  /\ speciesList = <<>>
  /\ creatures = <<>>
  /\ year = 0
  /\ paused = FALSE
  /\ speedIndex = 2
  /\ selectedCreature = NoCreature
  /\ gen = NoGen
  /\ pc = "call"
  /\ idx = 0
  /\ passStartLen = 0
  /\ lastAttack = NoAttack
  /\ nextId = 1
  /\ stepsDone = 0
  /\ resets = 0
  /\ \E mode \in {"terrestrial", "water"} :
       call = [fn |-> "findRandomTileForSpecies", movementMode |-> mode,
               attempts |-> 0, drawn |-> NoTile, out |-> NoTile,
               matched |-> FALSE, done |-> FALSE]

\* lines 241-251: one iteration of the while loop, t the tile it draws
FT_Attempt ==
  /\ pc = "call"
  /\ call.fn = "findRandomTileForSpecies"
  /\ ~ call.done
  /\ call.attempts < MAX_ATTEMPTS
  /\ \E t \in Tiles :
       IF TileMatches(world, call.movementMode, t)
       THEN call' = [call EXCEPT !.drawn = t, !.out = t, !.matched = TRUE,
                                 !.done = TRUE]
       ELSE call' = [call EXCEPT !.drawn = t, !.attempts = @ + 1]
  /\ UNCHANGED nonCallVars

\* lines 252-256: the loop is over, any tile is returned
FT_Fallback ==
  /\ pc = "call"
  /\ call.fn = "findRandomTileForSpecies"
  /\ ~ call.done
  /\ ~ (call.attempts < MAX_ATTEMPTS)
  /\ \E t \in Tiles :
       call' = [call EXCEPT !.drawn = t, !.out = t, !.done = TRUE]
  /\ UNCHANGED nonCallVars

NextPlacement == FT_Attempt \/ FT_Fallback

SpecPlacement == InitPlacement /\ [][NextPlacement]_vars

\* tile t suits the movement mode: water for water, anything else otherwise
SuitsMode(w, mode, t) ==
  IF mode = "water" THEN w[t.y][t.x] = "water" ELSE w[t.y][t.x] # "water"

\* the call never makes more than MAX_ATTEMPTS attempts; it goes on only
\* after a draw that does not suit the species; what it returns lies in the
\* grid, and is either the suiting tile an attempt drew or, after
\* MAX_ATTEMPTS failed attempts, the tile drawn after the loop
C17_Result ==
  call.fn = "findRandomTileForSpecies" =>
    /\ call.attempts <= MAX_ATTEMPTS
    /\ (~ call.done /\ call.attempts > 0) =>
         ~ SuitsMode(world, call.movementMode, call.drawn)
    /\ call.done =>
         /\ call.out.x \in 0 .. (WORLD_WIDTH - 1)
         /\ call.out.y \in 0 .. (WORLD_HEIGHT - 1)
         /\ call.out = call.drawn
         /\ call.matched => SuitsMode(world, call.movementMode, call.out)
         /\ ~ call.matched => call.attempts = MAX_ATTEMPTS

\* every iteration returns or counts one more attempt
C17_Progress ==
  (call.fn = "findRandomTileForSpecies" /\ ~ call.done) =>
    \/ call'.done
    \/ /\ call'.attempts = call.attempts + 1
       /\ ~ SuitsMode(world, call.movementMode, call'.drawn)

\* C17 -- Placement never fails: for every world, one with no tile matching
\* the species' movement mode included, findRandomTileForSpecies terminates
\* after at most 1000 attempts and returns coordinates inside the grid; it
\* returns a tile matching the movement mode whenever one of the attempts
\* drew such a tile, and otherwise an unconstrained random tile.
C17_PlacementNeverFails == []C17_Result /\ [][C17_Progress]_vars

\* a terrestrial species in a world of water: MAX_ATTEMPTS attempts have
\* failed and a water tile has been returned
C17_Witness ==
  /\ call.fn = "findRandomTileForSpecies"
  /\ call.done
  /\ ~ call.matched
  /\ call.attempts = MAX_ATTEMPTS
  /\ call.movementMode = "terrestrial"
  /\ world[call.out.y][call.out.x] = "water"

-----------------------------------------------------------------------------
(* The two searches of the registry on their own: findNearbyCreature and    *)
(* the mate search of attemptReproduction.  Neither reads the grid; the     *)
(* creatures stand on a square of QUERY_SPAN tiles a side.                   *)

QUERY_SPAN == 3

REGISTRY_SIZE == 3

\* a grid of QUERY_SPAN tiles a side: fields, and water in the far corner
QueryWorld ==
  [y \in 0 .. (QUERY_SPAN - 1) |->
     [x \in 0 .. (QUERY_SPAN - 1) |->
        IF x = QUERY_SPAN - 1 /\ y = QUERY_SPAN - 1 THEN "water" ELSE "fields"]]

QuerySpecies ==
  << Species(0, "terrestrial", "herbivore", FALSE),
     Species(1, "terrestrial", "carnivore", FALSE) >>

\* where the other creatures stand: in the first row, or below its middle
QueryPositions ==
  { [x |-> x, y |-> 0] : x \in 0 .. (QUERY_SPAN - 1) } \cup { [x |-> 1, y |-> 1] }

\* the creature that searches: at an end of the first row, of the first
\* species, female, fed, of an age that is a multiple of its repro_cooldown
QuerySubjects(id) ==
  { [Creature(id, QuerySpecies[1], x, 0, "F", SimInitialTraits)
       EXCEPT !.age = 200, !.energy = EnergyOf(60 * ONE)] :
    x \in {0, QUERY_SPAN - 1} }

\* the creatures it may find: anywhere, alive or dead, of either species and
\* sex, with exactly half of their stomach_capacity or just less
QueryOthers(id) ==
  { [Creature(id, sp, p.x, p.y, sex, SimInitialTraits)
       EXCEPT !.age = 200, !.energy = e, !.alive = al] :
    <<sp, p, sex, e, al>> \in
       {QuerySpecies[1], QuerySpecies[2]} \X QueryPositions \X {"M", "F"}
       \X {EnergyOf(30 * ONE), EnergyOf(30 * ONE) - 1} \X BOOLEAN }

\* the registries in which the searching creature is the i-th
QueryRegistries(i) ==
  SeqsOver([k \in 1 .. REGISTRY_SIZE |->
              IF k = i THEN QuerySubjects(k) ELSE QueryOthers(k)])

\* the draws of the only child: a female, not mutated
QueryKidDraws ==
  << [sex |-> "F", pickA |-> [k \in BooleanTraits |-> TRUE],
      mutate |-> FALSE, m |-> NoMutation] >>

InitQueries ==
  /\ world = QueryWorld
  /\ speciesList = QuerySpecies
  /\ \E i \in 1 .. REGISTRY_SIZE :
       /\ creatures \in QueryRegistries(i)
       /\ call = [fn |-> "none", i |-> i]
  /\ year = 200
  /\ paused = FALSE
  /\ speedIndex = 2
  /\ selectedCreature = NoCreature
  /\ gen = NoGen
  /\ pc = "call"
  /\ idx = 0
  /\ passStartLen = REGISTRY_SIZE
  /\ lastAttack = NoAttack
  /\ nextId = REGISTRY_SIZE + 1
  /\ stepsDone = 0
  /\ resets = 0

\* stepCreature, line 436: findNearbyCreature(creature, 1); also radius 2
CallFindNearbyCreature ==
  /\ pc = "call"
  /\ call.fn = "none"
  /\ \E radius \in {1, 2} :
       call' = [fn |-> "findNearbyCreature", i |-> call.i, radius |-> radius,
                out |-> findNearbyCreature(creatures, call.i, radius)]
  /\ UNCHANGED nonCallVars

\* stepCreature, line 449: attemptReproduction(creature, index)
CallAttemptReproduction ==
  /\ pc = "call"
  /\ call.fn = "none"
  /\ \E r \in { attemptReproduction(creatures, speciesList, call.i,
                                    QueryKidDraws, nextId) } :
       /\ creatures' = r.cs
       /\ nextId' = nextId + r.born
  /\ call' = [fn |-> "attemptReproduction", i |-> call.i, before |-> creatures]
  /\ UNCHANGED <<world, speciesList, year, paused, speedIndex,
                 selectedCreature, gen, pc, idx, passStartLen, lastAttack,
                 stepsDone, resets>>

NextQueries == CallFindNearbyCreature \/ CallAttemptReproduction

SpecQueries == InitQueries /\ [][NextQueries]_vars

\* creature j of cs is alive, is not creature i, and lies within squared
\* Euclidean distance radius^2 of it
WithinRadius(cs, i, j, radius) ==
  /\ cs[j].alive
  /\ j # i
  /\ (cs[j].x - cs[i].x) * (cs[j].x - cs[i].x)
       + (cs[j].y - cs[i].y) * (cs[j].y - cs[i].y) <= radius * radius

\* C18 -- findNearbyCreature(creature, radius) returns the first creature in
\* registry order that is alive, is not the given creature and lies within
\* squared Euclidean distance radius^2 of it (with radius 1: the same tile
\* or an orthogonal neighbour, never a diagonal one), even when a closer
\* creature comes later in the list; it returns null when there is none.
C18_FindNearby ==
  call.fn = "findNearbyCreature" =>
    /\ call.out = 0 <=>
         ~ \E j \in Registry : WithinRadius(creatures, call.i, j, call.radius)
    /\ call.out # 0 =>
         /\ call.out \in Registry
         /\ WithinRadius(creatures, call.i, call.out, call.radius)
         /\ \A j \in 1 .. (call.out - 1) :
              ~ WithinRadius(creatures, call.i, j, call.radius)
         /\ call.radius = 1 =>
              \/ /\ creatures[call.out].x = creatures[call.i].x
                 /\ creatures[call.out].y - creatures[call.i].y \in {-1, 0, 1}
              \/ /\ creatures[call.out].y = creatures[call.i].y
                 /\ creatures[call.out].x - creatures[call.i].x \in {-1, 0, 1}

\* with radius 1 the search has returned an orthogonal neighbour although a
\* living creature on the searching creature's own tile comes later
C18_Witness ==
  /\ call.fn = "findNearbyCreature"
  /\ call.radius = 1
  /\ call.out # 0
  /\ creatures[call.out].x # creatures[call.i].x
  /\ \E j \in Registry :
       /\ j > call.out
       /\ j # call.i
       /\ creatures[j].alive
       /\ creatures[j].x = creatures[call.i].x
       /\ creatures[j].y = creatures[call.i].y

\* C19 -- Mate selection: the mate used by attemptReproduction is the first
\* creature in registry order that is alive, is not the initiator, has the
\* initiator's species id and the opposite sex, lies within Chebyshev
\* distance 1 of the initiator and has energy >= 50% of its own
\* stomach_capacity; no creature failing any of these is ever used as a mate.
\* (The mate used is the creature, other than the initiator, whose energy
\* the call halves.)
C19_MateSelection ==
  call.fn = "attemptReproduction" =>
    /\ Len(creatures) > Len(call.before) <=> HasMate(call.before, call.i)
    /\ ~ HasMate(call.before, call.i) => creatures = call.before
    /\ HasMate(call.before, call.i) =>
         \A j \in 1 .. Len(call.before) :
           IF j = FirstMate(call.before, call.i)
           THEN creatures[j] =
                  [call.before[j] EXCEPT !.energy = call.before[j].energy \div 2]
           ELSE j # call.i => creatures[j] = call.before[j]

\* the mate used stands on a diagonal neighbour tile with exactly half of
\* its stomach_capacity, and a creature of the same species and the
\* opposite sex that comes before it was passed over
C19_Witness ==
  /\ call.fn = "attemptReproduction"
  /\ Len(creatures) > Len(call.before)
  /\ \E m \in 1 .. Len(call.before) :
       /\ m # call.i
       /\ creatures[m].energy # call.before[m].energy
       /\ 2 * call.before[m].energy = Capacity(call.before[m])
       /\ call.before[m].x # call.before[call.i].x
       /\ call.before[m].y # call.before[call.i].y
       /\ \E j \in 1 .. (m - 1) :
            /\ j # call.i
            /\ call.before[j].alive
            /\ call.before[j].speciesId = call.before[call.i].speciesId
            /\ call.before[j].sex # call.before[call.i].sex

-----------------------------------------------------------------------------
(* Further properties of the simulation step                                *)

\* the age of every creature that was in the registry before a tick of
\* creatures[idx + 1]: one more for the ticked creature, the same for the
\* others; the creatures the tick appended are behind the ticked one, at
\* age 0, where the pass has not been yet
C21_Tick ==
  AtTick =>
    /\ idx' = idx + 1
    /\ Len(creatures') >= Len(creatures)
    /\ creatures'[idx + 1].age = creatures[idx + 1].age + 1
    /\ \A k \in Registry :
         k # idx + 1 => creatures'[k].age = creatures[k].age
    /\ \A k \in (Len(creatures) + 1) .. Len(creatures') :
         /\ k > idx'
         /\ creatures'[k].age = 0

\* the pass starts at the head of the registry, moves on by one creature
\* at a time, and touches the registry in a tick only
C21_Pass ==
  /\ pc' = "step" /\ pc # "step" => idx' = 0 /\ creatures' = creatures
  /\ pc' = "step" /\ pc = "step" => idx' = idx + 1
  /\ pc' = "step" /\ ~ AtTick => creatures' = creatures
  /\ pc = "step" /\ pc' # "step" =>
       /\ idx = Len(creatures)
       /\ \A k \in 1 .. Len(creatures') :
            \E j \in Registry : creatures'[k] = creatures[j]

\* C21 -- Within one simulation step creatures are ticked in registry order,
\* each creature's tick completes before the next creature's tick begins,
\* every creature that is in the registry at the start of the step and alive
\* when its turn comes is ticked exactly once (its age grows by exactly 1),
\* and an offspring is never ticked before the tick of the parent that
\* created it has finished.
C21_TickOrder ==
  /\ [](pc = "step" => idx <= Len(creatures))
  /\ [][C21_Tick /\ C21_Pass]_vars

\* a pass is over in which a creature was born at the end of the registry
\* and ticked after its parents: the child is one tick old, and every living
\* creature that was there before has reached a birthday of 200 ticks
C21_Witness ==
  /\ PassOver
  /\ idx = Len(creatures)
  /\ Len(creatures) > passStartLen
  /\ creatures[Len(creatures)].alive
  /\ creatures[Len(creatures)].age = 1
  /\ \E k \in 1 .. passStartLen :
       creatures[k].alive /\ creatures[k].age = 400
  /\ \A k \in 1 .. passStartLen :
       creatures[k].alive => creatures[k].age \in {200, 400, 2000}

-----------------------------------------------------------------------------
(* Further properties of resolveAttack                                      *)

\* the kill and the meal of lines 487-495, read off the registry after the
\* call: a dead target for energy <= 0 and for that only, the meal for the
\* attacker of a dead target, nothing for the attacker of a living one
C22_KillAndMeal ==
  LET a == call.before[1]
      t == call.before[2]
  IN  /\ ~ creatures[2].alive <=> creatures[2].energy <= 0
      /\ ~ creatures[2].alive =>
           creatures[1].energy
             = Min(Capacity(a),
                   a.energy - ClaimedSpines(t)
                     + EnergyOf(30 * a.traits.food_efficiency))
      /\ creatures[2].alive => creatures[1].energy <= a.energy

\* C22 -- Kill and reward: at the end of resolveAttack the target is marked
\* dead if and only if its energy is <= 0 after all deductions of that
\* attack; in that case the attacker's energy becomes min(attacker
\* stomach_capacity, attacker energy + 30 * food_efficiency), and when the
\* target survives the attacker gains nothing from the attack.
\* The code returns at line 472 when the damage is 0: a living target whose
\* energy is <= 0 already stays alive, and the attacker has no meal.
C22_KillIffExhausted ==
  call.fn = "resolveAttack" => C22_KillAndMeal

\* C22, as the code has it -- an attack whose damage is positive marks the
\* target dead if and only if its energy is <= 0 after the deductions, the
\* attacker's energy then becomes min(stomach_capacity, energy + 30 *
\* food_efficiency), its energy being the one the spines left, and the
\* attacker of a surviving target gains nothing; an attack whose damage is
\* 0 changes nothing, whatever the target's energy.
C22_KillOfDamagingAttack ==
  call.fn = "resolveAttack" =>
    /\ lastAttack.damage > 0 => C22_KillAndMeal
    /\ lastAttack.damage <= 0 => creatures = call.before

\* attack 5 + bite 1 against armor 2 takes the 20 units the target had: it
\* is dead with energy 0, and the attacker, who had 35 of 60, is full
C22_Witness ==
  /\ call.fn = "resolveAttack"
  /\ lastAttack.damage = 4 * ONE
  /\ call.before[2].energy = EnergyOf(20 * ONE)
  /\ call.before[2].alive
  /\ ~ creatures[2].alive
  /\ creatures[2].energy = 0
  /\ call.before[1].energy = EnergyOf(35 * ONE)
  /\ creatures[1].energy = Capacity(creatures[1])

\* every creature stands on a tile of the grid
C23_InGrid ==
  \A k \in Registry : creatures[k].x \in Xs /\ creatures[k].y \in Ys

\* a tick moves the ticked creature by one tile at most, in x and in y, and
\* no other creature
C23_OneTile ==
  AtTick =>
    /\ (creatures'[idx + 1].x - creatures[idx + 1].x) \in {-1, 0, 1}
    /\ (creatures'[idx + 1].y - creatures[idx + 1].y) \in {-1, 0, 1}
    /\ \A k \in Registry :
         k # idx + 1 =>
           creatures'[k].x = creatures[k].x /\ creatures'[k].y = creatures[k].y

\* the tile at (x, y) is one a creature of this movement mode may not enter
C23_Barred(movementMode, x, y) ==
  /\ x \in Xs
  /\ y \in Ys
  /\ IF movementMode = "water" THEN world[y][x] # "water"
     ELSE world[y][x] = "water"

\* whichever direction the tick of creatures[idx + 1] draws: when the tile
\* one step that way is a tile the creature may not enter, and also when a
\* water creature heads out of the grid (getBiome answers "fields" there),
\* the tick leaves the creature where it is
C23_BarredStep ==
  AtTick =>
    LET c == creatures[idx + 1]
    IN  \A d \in TickDraws(c) :
          LET nx == c.x + DirDX(d.dir)
              ny == c.y + DirDY(d.dir)
              h == TickHead(creatures, selectedCreature, world, idx + 1, d)
          IN  ( \/ C23_Barred(c.movementMode, nx, ny)
                \/ c.movementMode = "water" /\ ~ (nx \in Xs /\ ny \in Ys) )
              => h.cs[idx + 1].x = c.x /\ h.cs[idx + 1].y = c.y

C24_FeedingTick ==
  ( /\ AtTick
    /\ idx' = idx + 1
    /\ creatures[idx + 1].traits.regen_rate = 0
    /\ creatures'[idx + 1].alive
    /\ lastAttack' = NoAttack
    /\ Len(creatures') = Len(creatures) )
  => creatures'[idx + 1].energy
       = Min(EnergyOf(creatures[idx + 1].traits.stomach_capacity),
             creatures[idx + 1].energy - Hunger(creatures[idx + 1])
               + FloorDiv(biomeFoodValue(
                            getBiome(world, creatures'[idx + 1].x,
                                     creatures'[idx + 1].y),
                            creatures[idx + 1].dietType)
                          * EnergyOf(creatures[idx + 1].traits.food_efficiency),
                          20))

\* C24 -- Feeding uses the current biome: the feeding step comes after the
\* movement step, and the energy gained is biomeFoodValue(b, diet) * 0.5 *
\* food_efficiency where b is the biome of the tile the creature occupies
\* when it feeds, that is its tile after this tick's movement.
\* The code breaks it: the biome is read at line 396, before the move, and
\* line 427 feeds the creature on that tile, the one it has just left.
C24_FeedsOnCurrentTile == [][C24_FeedingTick]_vars

\* the call of resolveAttack in the tick of creatures[idx + 1], as the
\* record of the attack shows it: the target was alive before the tick, is
\* another creature, stands within squared distance 1 of the place the
\* attacker has moved to, and the attacker eats meat and is of another
\* species or a cannibal
C25_Call ==
  (AtTick /\ lastAttack'.attacker # 0) =>
    /\ lastAttack'.attacker = creatures[idx + 1].id
    /\ \E t \in Registry :
         /\ creatures[t].id = lastAttack'.target
         /\ creatures[t].alive
         /\ t # idx + 1
         /\ Dist2(creatures'[idx + 1].x, creatures'[idx + 1].y, creatures[t]) <= 1
         /\ creatures[idx + 1].dietType \in {"carnivore", "omnivore"}
         /\ \/ creatures[t].speciesId # creatures[idx + 1].speciesId
            \/ creatures[idx + 1].isCannibal

\* resolveAttack is called in ticks only
C25_InTick == lastAttack'.attacker # 0 => AtTick

\* the tick of a creature that is no cannibal takes no energy from another
\* creature of its species, but the half of its mate's when it reproduces
C25_OwnSpecies ==
  (AtTick /\ ~ creatures[idx + 1].isCannibal) =>
    \A k \in Registry :
      (k # idx + 1 /\ creatures[k].speciesId = creatures[idx + 1].speciesId) =>
        /\ creatures'[k].alive = creatures[k].alive
        /\ \/ creatures'[k].energy = creatures[k].energy
           \/ /\ Len(creatures') > Len(creatures)
              /\ creatures'[k].energy = creatures[k].energy \div 2

\* C25 -- Attack eligibility: resolveAttack is called from a tick only with
\* a target that is alive, is not the attacker, lies within squared distance
\* 1 of the attacker, and only when the attacker's diet is carnivore or
\* omnivore and either the target's species differs from the attacker's or
\* the attacker is cannibalistic; a non-cannibal creature never lowers the
\* energy of a creature of its own species by attack.
C25_AttackEligibility == [][C25_Call /\ C25_InTick /\ C25_OwnSpecies]_vars

\* a creature that is no cannibal has just attacked a creature of another
\* species on its own tile or next to it, and took energy from it
C25_Witness ==
  /\ pc = "step"
  /\ idx > 0
  /\ lastAttack.attacker = creatures[idx].id
  /\ lastAttack.damage > 0
  /\ ~ creatures[idx].isCannibal
  /\ \E t \in Registry :
       /\ creatures[t].id = lastAttack.target
       /\ creatures[t].speciesId # creatures[idx].speciesId
       /\ Dist2(creatures[idx].x, creatures[idx].y, creatures[t]) <= 1
       /\ creatures[t].energy < EnergyOf(creatures[t].traits.stomach_capacity)

-----------------------------------------------------------------------------
(* Further properties of generateWorld                                      *)

\* seed k is at minimal squared distance of the cell (x, y), and the
\* earliest such seed
C26_EarliestClosest(k, x, y) ==
  /\ \A j \in 1 .. Len(gen.seeds) :
       Dist2(x, y, gen.seeds[k]) <= Dist2(x, y, gen.seeds[j])
  /\ \A j \in 1 .. (k - 1) :
       Dist2(x, y, gen.seeds[k]) < Dist2(x, y, gen.seeds[j])

\* C26 -- Voronoi assignment and guaranteed water: every cell of the grid
\* returned by generateWorld holds the biome of a seed at minimal squared
\* Euclidean distance, the earliest such seed in seed order winning ties;
\* since seed 0 is forced to water, the cell at seed 0's coordinates is
\* water, so every generated world has at least one water tile (a world with
\* no non-water tile is not excluded).
C26_Voronoi ==
  gen.pc = "done" =>
    /\ \A y \in Ys, x \in Xs :
         \E k \in 1 .. Len(gen.seeds) :
           /\ C26_EarliestClosest(k, x, y)
           /\ world[y][x] = gen.seeds[k].biome
    /\ gen.seeds[1].biome = "water"
    /\ world[gen.seeds[1].y][gen.seeds[1].x] = "water"
    /\ \E y \in Ys, x \in Xs : world[y][x] = "water"

\* a generated world in which a later seed of another biome lies on the tile
\* of seed 0, and a cell is as far from a water seed as from a later seed
\* of another biome: both cells are water
C26_Witness ==
  /\ gen.pc = "done"
  /\ \E k \in 2 .. Len(gen.seeds) :
       /\ gen.seeds[k].biome # "water"
       /\ gen.seeds[k].x = gen.seeds[1].x
       /\ gen.seeds[k].y = gen.seeds[1].y
  /\ \E y \in Ys, x \in Xs :
       \E j \in 1 .. Len(gen.seeds), k \in 1 .. Len(gen.seeds) :
         /\ j < k
         /\ C26_EarliestClosest(j, x, y)
         /\ Dist2(x, y, gen.seeds[j]) = Dist2(x, y, gen.seeds[k])
         /\ Dist2(x, y, gen.seeds[j]) > 0
         /\ gen.seeds[j].biome = "water"
         /\ gen.seeds[k].biome # "water"
         /\ world[y][x] = "water"

-----------------------------------------------------------------------------
(* Further properties of applyMutation                                      *)

\* the numeric traits, metabolism_rate aside, in which out differs from arg
C27_Changed(arg, out) ==
  { k \in DOMAIN arg \ (BooleanTraits \cup {"metabolism_rate"}) :
      out[k] # arg[k] }

\* the frame of applyMutation: the same keys; at most one boolean trait
\* differs, one of the mutable four; at most two numeric traits differ, both
\* of the mutable list; stomach_capacity, bite_force and shell_hardness are
\* the input's
C27_Frame(arg, out) ==
  /\ DOMAIN out = DOMAIN arg
  /\ { k \in BooleanTraits : out[k] # arg[k] } \subseteq MUTABLE_BOOLEAN_TRAITS
  /\ Cardinality({ k \in BooleanTraits : out[k] # arg[k] }) <= 1
  /\ C27_Changed(arg, out) \subseteq MUTABLE_NUMERIC_TRAITS
  /\ Cardinality(C27_Changed(arg, out)) <= 2
  /\ out.stomach_capacity = arg.stomach_capacity
  /\ out.bite_force = arg.bite_force
  /\ out.shell_hardness = arg.shell_hardness

\* the call leaves its argument, the mixTraits result, and the genomes of
\* the parents as they were
C27_InputKept ==
  call'.fn = "applyMutation" =>
    call'.arg = call.out /\ call'.a = call.a /\ call'.b = call.b

\* C27 -- Mutation frame: applyMutation never modifies its input genome, and
\* the genome it returns differs from the input in at most one boolean trait
\* among has_venom, can_hibernate, can_burrow, can_autotomize, at most two
\* numeric traits of the mutable list (each by a delta in [-0.2, 0.2] before
\* clamping), and metabolism_rate; every other trait, in particular
\* stomach_capacity, bite_force and shell_hardness, is equal to the input's.
\* (The input lies within the clamps, so a trait that differs by one delta
\* differs by 0.2 at most after clamping too.)
\* The code draws the key of each numeric mutation from the whole list: the
\* two mutations of a call may hit the same trait, which then differs by two
\* deltas.
C27_OneDeltaPerTrait ==
  /\ [](call.fn = "applyMutation" =>
          /\ C27_Frame(call.arg, call.out)
          /\ \A k \in C27_Changed(call.arg, call.out) :
               /\ call.out[k] - call.arg[k] <= Tenths(2)
               /\ call.arg[k] - call.out[k] <= Tenths(2))
  /\ [][C27_InputKept]_vars

\* C27, as the code has it -- applyMutation never modifies its input genome,
\* and the genome it returns differs from the input in at most one boolean
\* trait among has_venom, can_hibernate, can_burrow, can_autotomize, at most
\* two numeric traits of the mutable list, and metabolism_rate; each of the
\* one or two numeric mutations adds a delta in [-0.2, 0.2) before clamping,
\* so a trait differs by one delta, or by two (up to 0.4) when both
\* mutations drew it; every other trait, in particular stomach_capacity,
\* bite_force and shell_hardness, is equal to the input's.
C27_MutationFrame ==
  /\ [](call.fn = "applyMutation" =>
          /\ C27_Frame(call.arg, call.out)
          /\ \A k \in C27_Changed(call.arg, call.out) :
               LET hits == (IF call.m.key1 = k THEN 1 ELSE 0)
                           + (IF call.m.two /\ call.m.key2 = k THEN 1 ELSE 0)
               IN  /\ hits >= 1
                   /\ call.out[k] - call.arg[k] <= hits * Tenths(2)
                   /\ call.arg[k] - call.out[k] <= hits * Tenths(2))
  /\ [][C27_InputKept]_vars

\* an applyMutation call whose two mutations drew the same trait: it is the
\* only numeric trait that differs, by more than 0.2, and stomach_capacity
\* is the input's; metabolism_rate has followed
C27_Witness ==
  /\ call.fn = "applyMutation"
  /\ call.m.two
  /\ call.m.key1 = call.m.key2
  /\ C27_Changed(call.arg, call.out) = {call.m.key1}
  /\ call.out[call.m.key1] - call.arg[call.m.key1] > Tenths(2)
  /\ call.out.stomach_capacity = call.arg.stomach_capacity
  /\ call.out.metabolism_rate # call.arg.metabolism_rate

\* ten times the complexity of the genome t, in units of 1 / ONE: size
\* + 0.5 armor + 0.3 attack_damage + 0.3 max_speed + 0.1 vision_radius
\* + 2 [has_venom] + 2 regen_rate + [can_burrow] + 0.5 [can_hibernate]
C28_Complexity10(t) ==
  10 * t.size + 5 * t.armor + 3 * t.attack_damage + 3 * t.max_speed
  + t.vision_radius + (IF t.has_venom THEN 20 * ONE ELSE 0)
  + 20 * t.regen_rate + (IF t.can_burrow THEN 10 * ONE ELSE 0)
  + (IF t.can_hibernate THEN 5 * ONE ELSE 0)

\* m is 0.02 + 0.003 * complexity of t, to the digits held: m is not above
\* the exact value and less than 2 / ONE below it (the products and the sum
\* are cut to a multiple of 1 / ONE)
C28_IsMetabolismOf(m, t) ==
  /\ 10000 * (m - 2 * (ONE \div 100)) <= 3 * C28_Complexity10(t)
  /\ 3 * C28_Complexity10(t) < 10000 * (m - 2 * (ONE \div 100) + 2)

\* C28 -- Metabolism coupling: the genome returned by applyMutation always
\* has metabolism_rate = 0.02 + 0.003 * (size + 0.5*armor + 0.3*attack_damage
\* + 0.3*max_speed + 0.1*vision_radius + 2*[has_venom] + 2*regen_rate
\* + [can_burrow] + 0.5*[can_hibernate]) computed from the returned traits,
\* whichever traits were perturbed (so mutating a baseline genome replaces
\* its metabolism_rate of 0.03 by the formula's value).
C28_MetabolismCoupling ==
  call.fn = "applyMutation" =>
    C28_IsMetabolismOf(call.out.metabolism_rate, call.out)

\* the child of two founders, metabolism_rate 0.03, has come out of
\* applyMutation with a flipped has_venom and regen_rate 0.1: its
\* metabolism_rate is no longer 0.03 and no longer the formula's value for
\* the genome that went in
C28_Witness ==
  /\ call.fn = "applyMutation"
  /\ call.arg.metabolism_rate = 3 * (ONE \div 100)
  /\ call.out.metabolism_rate > 3 * (ONE \div 100)
  /\ call.out.has_venom /\ ~ call.arg.has_venom
  /\ call.out.regen_rate = Tenths(1)
  /\ ~ C28_IsMetabolismOf(call.out.metabolism_rate, call.arg)

-----------------------------------------------------------------------------
(* The simulation left running: loop() is scheduled again at the end of     *)
(* every frame (line 720) and calls stepSimulation as long as the           *)
(* simulation is neither paused nor frozen                                  *)

\* the year up to which the counter is followed; above it the steps go on
\* and the state keeps the last year counted (the test of line 690 has the
\* same outcome for every year but 0)
MaxYear == 2002

\* loop, lines 709-713, with no bound on the number of steps
BeginStepLive ==
  /\ pc = "idle"
  /\ ~ paused
  /\ SPEED_STEPS[speedIndex + 1] > 0
  /\ pc' = "step"
  /\ idx' = 0
  /\ passStartLen' = Len(creatures)
  /\ lastAttack' = NoAttack
  /\ UNCHANGED <<world, speciesList, creatures, year, paused, speedIndex,
                 selectedCreature, gen, nextId, stepsDone, resets, call>>

\* stepSimulation, lines 690-696
EndStepLive ==
  /\ pc = "step"
  /\ ~ (idx < PassLimit)
  /\ creatures' = IF YearIsMultipleOf5(year)
                  THEN SelectSeq(creatures, LAMBDA c : c.alive)
                  ELSE creatures
  /\ year' = IF year < MaxYear THEN NextYear(year) ELSE year
  /\ stepsDone' = IF year < MaxYear THEN stepsDone + 1 ELSE stepsDone
  /\ pc' = "idle"
  /\ lastAttack' = NoAttack
  /\ UNCHANGED <<world, speciesList, paused, speedIndex, selectedCreature,
                 gen, idx, passStartLen, nextId, resets, call>>

NextLive == BeginStepLive \/ Tick \/ SkipDead \/ EndStepLive

\* Step 2000 of a simulation in which a species of cannibal carnivores has
\* kept every creature too short of energy to reproduce: the registry holds
\* the founders, one tick from their death of age
LiveSpeciesLists ==
  { sl \in SimSpeciesLists :
      \E s \in 1 .. NUM_SPECIES : sl[s].dietType = "carnivore" }

InitLive ==
  /\ world \in SimWorlds
  /\ speciesList \in LiveSpeciesLists
  /\ creatures \in Founders(world, speciesList, Half(2000))
                   \cup Founders(world, speciesList, Weak(2000))
  /\ year = 2000
  /\ nextId = Len(creatures) + 1
  /\ paused = FALSE
  /\ speedIndex = 2
  /\ selectedCreature = NoCreature
  /\ gen = NoGen
  /\ pc = "idle"
  /\ idx = 0
  /\ passStartLen = 0
  /\ lastAttack = NoAttack
  /\ stepsDone = 0
  /\ resets = 0
  /\ call = NoCall

SpecLive == InitLive /\ [][NextLive]_vars /\ WF_vars(NextLive)

\* no living creature is older than its max_age
C29_DeadByMaxAge ==
  \A k \in Registry :
    creatures[k].alive => creatures[k].age * ONE <= creatures[k].traits.max_age

\* every founder is marked dead in the end
C29_EventuallyDead ==
  \A i \in 1 .. SpawnCount :
    <>(\A k \in Registry : creatures[k].id = i => ~ creatures[k].alive)

\* every founder leaves the registry in the end
C29_EventuallyRemoved ==
  \A i \in 1 .. SpawnCount :
    <>(\A k \in Registry : creatures[k].id # i)

\* C29 -- Every creature eventually dies: if simulation steps keep being
\* executed (not paused, speed above Frozen, no reset), every creature
\* present in the registry is eventually marked dead, at the latest on the
\* tick at which its age first exceeds its max_age, and is eventually
\* removed from the registry by compaction.
\* The code breaks the last part: the compaction waits for year % 5 === 0,
\* which no year but 0 satisfies (see C5), so that the dead stay listed.
C29_EveryCreatureDies ==
  []C29_DeadByMaxAge /\ C29_EventuallyDead /\ C29_EventuallyRemoved

-----------------------------------------------------------------------------
(* Further properties of the reproduction                                   *)

\* the registry grows in ticks only, and the tick in which it grows is one
\* of a creature whose age, counted in that tick, is a multiple of its
\* repro_cooldown and whose energy was above 70% of its stomach_capacity
\* before the reproduction halved it; the children stand on its tile
C30_Initiation ==
  Len(creatures') > Len(creatures) =>
    /\ AtTick
    /\ idx' = idx + 1
    /\ creatures'[idx + 1].age = creatures[idx + 1].age + 1
    /\ AgeMultiple(creatures'[idx + 1])
    /\ 2 * creatures'[idx + 1].energy + 1
         > (Capacity(creatures'[idx + 1]) \div 10) * 7
    /\ \A k \in (Len(creatures) + 1) .. Len(creatures') :
         /\ creatures'[k].speciesId = creatures[idx + 1].speciesId
         /\ creatures'[k].x = creatures'[idx + 1].x
         /\ creatures'[k].y = creatures'[idx + 1].y

\* after an age that is a multiple of the creature's repro_cooldown, none of
\* the ages of its next ticks is one until repro_cooldown ticks have passed
C30_NextWindow ==
  \A k \in Registry :
    (creatures[k].age * ONE) % creatures[k].traits.repro_cooldown = 0 =>
      \A d \in 1 .. ((creatures[k].traits.repro_cooldown - 1) \div ONE) :
        ((creatures[k].age + d) * ONE) % creatures[k].traits.repro_cooldown # 0

\* C30 -- Reproduction window: a creature initiates reproduction at most
\* once per simulation step and only on a tick where, after the age
\* increment, its age is an exact multiple of its repro_cooldown and its
\* energy is above 70% of its stomach_capacity; two initiations by the same
\* creature are therefore at least repro_cooldown ticks apart, and
\* reproduction cannot re-trigger on consecutive ticks.  (A creature has one
\* tick per step, and each tick adds 1 to its age: C21.)
C30_ReproductionWindow ==
  /\ []C30_NextWindow
  /\ [][C30_Initiation /\ C21_Tick /\ C21_Pass]_vars

\* a creature has reproduced in the tick that took its age to 400, its
\* second window, 200 ticks after the first: it is left with half of its
\* energy, and its child is the last of the registry
C30_Witness ==
  /\ pc = "step"
  /\ idx > 0
  /\ idx <= passStartLen
  /\ Len(creatures) > passStartLen
  /\ creatures[idx].alive
  /\ creatures[idx].age = 400
  /\ creatures[idx].traits.repro_cooldown = 200 * ONE
  /\ creatures[idx].energy = Capacity(creatures[idx]) \div 2
  /\ creatures[Len(creatures)].age = 0
  /\ creatures[Len(creatures)].speciesId = creatures[idx].speciesId

-----------------------------------------------------------------------------
(* Further properties of the controls                                       *)

\* selectedCreature is null or a living creature of the registry
C31_SelectionAlive ==
  selectedCreature # NoCreature =>
    \E k \in Registry :
      creatures[k].id = selectedCreature /\ creatures[k].alive

\* s is what the claim lets a click at (mx, my) select: a living creature
\* less than two tile sizes from the point, none of the living being
\* closer; null when no living creature is that close
C31_Closest(s, mx, my) ==
  LET close(k) == /\ creatures[k].alive
                  /\ ClickDist2(creatures[k], mx, my)
                       < (2 * TILE_SIZE) * (2 * TILE_SIZE)
  IN  IF \E k \in Registry : close(k)
      THEN \E k \in Registry :
             /\ creatures[k].id = s
             /\ close(k)
             /\ \A j \in Registry :
                  creatures[j].alive =>
                    ClickDist2(creatures[k], mx, my)
                      <= ClickDist2(creatures[j], mx, my)
      ELSE s = NoCreature

\* between two frames, whichever point is clicked, the click selects what
\* the claim says
C31_Click ==
  pc = "idle" =>
    \A mx \in ClickPoints, my \in ClickPoints :
      C31_Closest(ClickTarget(creatures, mx, my), mx, my)

\* the selection changes by a click, by a death or by a reset only
C31_Change ==
  selectedCreature' # selectedCreature =>
    \/ /\ pc = "idle" /\ pc' = "idle" /\ creatures' = creatures
       /\ \E mx \in ClickPoints, my \in ClickPoints :
            C31_Closest(selectedCreature', mx, my)
    \/ /\ AtTick
       /\ selectedCreature' = NoCreature
       /\ \E k \in Registry :
            /\ creatures[k].id = selectedCreature
            /\ creatures[k].alive
            /\ ~ creatures'[k].alive
    \/ /\ resets' = resets + 1
       /\ selectedCreature' = NoCreature

\* C31 -- Selection never points at a dead creature: under any interleaving
\* of canvas clicks, simulation steps, pause toggles and resets,
\* selectedCreature is either null or a creature that is alive and present
\* in the current creature list; a click selects the living creature closest
\* to the click point within two tile sizes (strictly), or clears the
\* selection when none is that close.
C31_Selection ==
  [](C31_SelectionAlive /\ C31_Click) /\ [][C31_Change]_vars

\* a step is under way that has passed a creature dead of age; the
\* selection, made by a click, holds a living creature that stands on the
\* same tile and comes later in the registry
C31_Witness ==
  /\ pc = "step"
  /\ selectedCreature # NoCreature
  /\ \E k \in Registry, d \in Registry :
       /\ creatures[k].id = selectedCreature
       /\ creatures[k].alive
       /\ ~ creatures[d].alive
       /\ d <= idx
       /\ creatures[d].age * ONE > creatures[d].traits.max_age
       /\ creatures[d].x = creatures[k].x
       /\ creatures[d].y = creatures[k].y
       /\ d < k

====
